---- MODULE Spec2Model ----
(***************************************************************************)
(* A model of the synchronous Momento data client (_ScsDataClient), its    *)
(* argument validation / byte coercion helpers (_data_validation.py) and   *)
(* the header-adding gRPC interceptor (AddHeaderClientInterceptor).        *)
(*                                                                         *)
(* Python values are records [t |-> <type name>, v |-> <payload>]; text is *)
(* a sequence of code points, bytes a sequence of 0..255, a timedelta a    *)
(* number of microseconds.  An exception is a record [cls, msg]; NoExc     *)
(* stands for "the statement completed".                                   *)
(***************************************************************************)
EXTENDS Integers, Sequences, FiniteSets, TLC

VARIABLES
    client,                       \* the _ScsDataClient instance's fields
    last,                         \* what the most recent data call did
    are_only_once_headers_sent,   \* AddHeaderClientInterceptor's class attribute
    interceptors,                 \* the AddHeaderClientInterceptor instances
    threads,                      \* each thread's position in intercept_unary_unary
    calls,                        \* the calls handed to the continuation, in order
    store,                        \* the cache service: the items it holds
    now,                          \* the cache service's clock, in milliseconds
    hist                          \* the calls made against the cache service, in order

vars == <<client, last, are_only_once_headers_sent, interceptors, threads, calls,
          store, now, hist>>
srvVars == <<store, now, hist>>
dataVars == <<client, last, srvVars>>
hdrVars == <<are_only_once_headers_sent, interceptors, threads, calls>>

(***************************************************************************)
(* Python values                                                           *)
(***************************************************************************)
PyNone == [t |-> "NoneType", v |-> 0]
PyInt(n) == [t |-> "int", v |-> n]
PyStr(s) == [t |-> "str", v |-> s]
PyBytes(b) == [t |-> "bytes", v |-> b]
PyList(xs) == [t |-> "list", v |-> xs]
PyDict(kvs) == [t |-> "dict", v |-> kvs]
PyTimedelta(us) == [t |-> "timedelta", v |-> us]
\* an object whose __str__/__repr__ raises
PyUnprintable == [t |-> "Unprintable", v |-> 0]

\* str(type(x)) as the f-strings of the code render it
TypeRepr(x) ==
    IF x.t = "timedelta" THEN "<class 'datetime.timedelta'>"
    ELSE IF x.t = "CollectionTtl" THEN "<class 'momento.requests.collection_ttl.CollectionTtl'>"
    ELSE "<class '" \o x.t \o "'>"

NoExc == [cls |-> "NoExc", msg |-> ""]
Exc(cls, msg) == [cls |-> cls, msg |-> msg]
InvalidArgumentException(msg) == Exc("InvalidArgumentException", msg)
UnknownException(msg) == Exc("UnknownException", msg)

\* the first exception of a sequence of statements run in order
RECURSIVE FirstExc(_)
FirstExc(es) ==
    IF es = <<>> THEN NoExc
    ELSE IF Head(es) # NoExc THEN Head(es)
    ELSE FirstExc(Tail(es))

(***************************************************************************)
(* _data_validation.py                                                     *)
(***************************************************************************)
DEFAULT_STRING_CONVERSION_ERROR == "Could not decode bytes to UTF-8"

_validate_name(name, field_name) ==
    IF name.t # "str" THEN InvalidArgumentException(field_name \o " must be a string")
    ELSE IF name.v = <<>> THEN InvalidArgumentException(field_name \o " must not be empty")
    ELSE NoExc

_validate_cache_name(cache_name) == _validate_name(cache_name, "Cache name")
_validate_list_name(list_name) == _validate_name(list_name, "List name")
_validate_dictionary_name(dictionary_name) == _validate_name(dictionary_name, "Dictionary name")
_validate_set_name(set_name) == _validate_name(set_name, "Set name")

\* UTF-8: the bytes of one code point; lone surrogates cannot be encoded
IsSurrogate(cp) == cp >= 55296 /\ cp <= 57343

EncodeCodePoint(cp) ==
    IF cp < 128 THEN <<cp>>
    ELSE IF cp < 2048 THEN <<192 + (cp \div 64), 128 + (cp % 64)>>
    ELSE IF cp < 65536 THEN
        <<224 + (cp \div 4096), 128 + ((cp \div 64) % 64), 128 + (cp % 64)>>
    ELSE <<240 + (cp \div 262144), 128 + ((cp \div 4096) % 64),
           128 + ((cp \div 64) % 64), 128 + (cp % 64)>>

RECURSIVE Utf8Encode(_)
Utf8Encode(s) ==
    IF s = <<>> THEN <<>> ELSE EncodeCodePoint(Head(s)) \o Utf8Encode(Tail(s))

HasSurrogate(s) == \E i \in DOMAIN s : IsSurrogate(s[i])

\* str.encode("utf-8"): [exc, val]
str_encode(s) ==
    IF HasSurrogate(s)
    THEN [exc |-> Exc("UnicodeEncodeError", "surrogates not allowed"), val |-> <<>>]
    ELSE [exc |-> NoExc, val |-> Utf8Encode(s)]

\* a faulty _as_bytes that lets any type through as empty bytes
_as_bytes_accepts_any(data, error_message) ==
    IF data.t = "str" THEN str_encode(data.v)
    ELSE [exc |-> NoExc, val |-> <<>>]

\* _as_bytes: [exc, val]
_as_bytes(data, error_message) ==
    IF data.t = "str" THEN str_encode(data.v)
    ELSE IF data.t = "bytes" THEN [exc |-> NoExc, val |-> data.v]
    ELSE [exc |-> InvalidArgumentException(error_message \o TypeRepr(data)), val |-> <<>>]

\* isinstance(x, collections.abc.Iterable) / Mapping
IsIterable(x) == x.t \in {"list", "dict", "str", "bytes"}
IsMapping(x) == x.t = "dict"

\* the elements `for value in values` visits
IterElements(x) ==
    IF x.t = "list" THEN x.v
    ELSE IF x.t = "dict" THEN [i \in DOMAIN x.v |-> x.v[i][1]]
    ELSE IF x.t = "str" THEN [i \in DOMAIN x.v |-> PyStr(<<x.v[i]>>)]
    ELSE IF x.t = "bytes" THEN [i \in DOMAIN x.v |-> PyInt(x.v[i])]
    ELSE <<>>

\* A generator run to exhaustion or to its first exception:
\* [exc, val] with val the items yielded before the exception.
RECURSIVE GenElements(_, _)
GenElements(elems, acc) ==
    IF elems = <<>> THEN [exc |-> NoExc, val |-> acc]
    ELSE LET b == _as_bytes(Head(elems), DEFAULT_STRING_CONVERSION_ERROR)
         IN IF b.exc # NoExc THEN [exc |-> b.exc, val |-> acc]
            ELSE GenElements(Tail(elems), Append(acc, b.val))

_gen_iterable_as_bytes(values, error_message) ==
    IF ~IsIterable(values)
    THEN [exc |-> InvalidArgumentException(error_message \o TypeRepr(values)), val |-> <<>>]
    ELSE GenElements(IterElements(values), <<>>)

_gen_list_as_bytes(values, error_message) == _gen_iterable_as_bytes(values, error_message)
_gen_dictionary_fields_as_bytes(fields, error_message) == _gen_iterable_as_bytes(fields, error_message)
_gen_set_input_as_bytes(elements, error_message) == _gen_iterable_as_bytes(elements, error_message)

RECURSIVE GenItems(_, _)
GenItems(kvs, acc) ==
    IF kvs = <<>> THEN [exc |-> NoExc, val |-> acc]
    ELSE LET k == _as_bytes(Head(kvs)[1], DEFAULT_STRING_CONVERSION_ERROR)
             w == _as_bytes(Head(kvs)[2], DEFAULT_STRING_CONVERSION_ERROR)
         IN IF k.exc # NoExc THEN [exc |-> k.exc, val |-> acc]
            ELSE IF w.exc # NoExc THEN [exc |-> w.exc, val |-> acc]
            ELSE GenItems(Tail(kvs), Append(acc, <<k.val, w.val>>))

_gen_dictionary_items_as_bytes(items, error_message) ==
    IF ~IsMapping(items)
    THEN [exc |-> InvalidArgumentException(error_message \o TypeRepr(items)), val |-> <<>>]
    ELSE GenItems(items.v, <<>>)

\* a faulty _validate_timedelta_ttl that rejects only negative durations
_validate_timedelta_ttl_accepts_zero(ttl, field_name) ==
    IF ttl.t # "timedelta" THEN InvalidArgumentException(field_name \o " must be a timedelta.")
    ELSE IF ttl.v < 0
    THEN InvalidArgumentException(field_name \o " must be a positive amount of time.")
    ELSE NoExc

_validate_timedelta_ttl(ttl, field_name) ==
    IF ttl.t # "timedelta" THEN InvalidArgumentException(field_name \o " must be a timedelta.")
    ELSE IF ttl.v <= 0
    THEN InvalidArgumentException(field_name \o " must be a positive amount of time.")
    ELSE NoExc

_validate_ttl(ttl) == _validate_timedelta_ttl(ttl, "TTL")

\* a faulty timeout validation that treats None like any other value
_validate_request_timeout_rejects_None(request_timeout) ==
    _validate_timedelta_ttl(request_timeout, "Request timeout")

_validate_request_timeout(request_timeout) ==
    IF request_timeout.t = "NoneType" THEN NoExc
    ELSE _validate_timedelta_ttl(request_timeout, "Request timeout")

(***************************************************************************)
(* Collaborators of the data client whose code is outside the files        *)
(* modelled here: momento.errors, momento.requests, the wire types and     *)
(* momento.internal.synchronous._utilities.                                *)
(***************************************************************************)
SdkExceptions == {"InvalidArgumentException", "UnknownException"}

ErrorCodeOfSdk(cls) ==
    IF cls = "InvalidArgumentException" THEN "INVALID_ARGUMENT_ERROR" ELSE "UNKNOWN_ERROR"

ErrorCodeOfStatus(status) ==
    IF status = "DEADLINE_EXCEEDED" THEN "TIMEOUT_ERROR"
    ELSE IF status = "UNAVAILABLE" THEN "SERVER_UNAVAILABLE"
    ELSE "UNKNOWN_SERVICE_ERROR"

\* momento.errors.convert_error: an SdkException is kept, a grpc.RpcError is
\* classified by its status, anything else is wrapped as UnknownException.
convert_error(e) ==
    IF e.cls \in SdkExceptions
    THEN [code |-> ErrorCodeOfSdk(e.cls), msg |-> e.msg, cls |-> e.cls, cause |-> e.cls]
    ELSE IF e.cls = "RpcError"
    THEN [code |-> ErrorCodeOfStatus(e.msg), msg |-> e.msg, cls |-> "SdkException", cause |-> e.cls]
    ELSE [code |-> "UNKNOWN_ERROR", msg |-> "Operation failed with error: " \o e.msg,
          cls |-> "UnknownException", cause |-> e.cls]

NoErr == [code |-> "", msg |-> "", cls |-> "", cause |-> ""]

\* make_metadata(cache_name): the per-call routing header
make_metadata(cache_name) == <<<<"cache", cache_name>>>>

CollectionTtl(ttl, refresh_ttl) ==
    [t |-> "CollectionTtl", v |-> [ttl |-> ttl, refresh_ttl |-> refresh_ttl]]

\* attribute access ttl.ttl / ttl.refresh_ttl on whatever was passed as `ttl`
attr_ttl(x) ==
    IF x.t = "CollectionTtl" THEN [exc |-> NoExc, val |-> x.v.ttl]
    ELSE [exc |-> Exc("AttributeError", "no attribute 'ttl'"), val |-> PyNone]

attr_refresh_ttl(x) ==
    IF x.t = "CollectionTtl" THEN [exc |-> NoExc, val |-> x.v.refresh_ttl]
    ELSE [exc |-> Exc("AttributeError", "no attribute 'refresh_ttl'"), val |-> FALSE]

\* response.WhichOneof(name): the tag that is set, or None
WhichOneof(response) == response.oneof

\* ECacheResult of the wire protocol
Invalid == 0
Ok == 1
Hit == 2
Miss == 3

(***************************************************************************)
(* Arithmetic of the request fields                                        *)
(***************************************************************************)
TruncDiv(a, b) == IF a >= 0 THEN a \div b ELSE -((-a) \div b)

\* Durations (microseconds, up to 3 s) for which the double product
\* total_seconds() * 1000 lies just below the exact number of milliseconds.
DoubleBelow ==
    {1001000, 1003000, 1005000, 1007000, 1009000, 1011000, 1013000, 1015000,
     1017000, 1019000, 1021000, 1023000, 2002000, 2006000, 2010000, 2014000,
     2018000, 2022000, 2026000, 2030000, 2034000, 2038000, 2042000, 2046000}

\* a faulty conversion that yields whole seconds instead of milliseconds
int_total_seconds(td) ==
    IF td.t # "timedelta"
    THEN [exc |-> Exc("AttributeError", "no attribute 'total_seconds'"), val |-> 0]
    ELSE [exc |-> NoExc, val |-> TruncDiv(td.v, 1000000)]

\* int(td.total_seconds() * 1000), for |td| <= 3 s and for whole seconds: [exc, val]
int_total_seconds_times_1000(td) ==
    IF td.t # "timedelta"
    THEN [exc |-> Exc("AttributeError", "no attribute 'total_seconds'"), val |-> 0]
    ELSE LET q == TruncDiv(td.v, 1000)
         IN [exc |-> NoExc,
             val |-> IF td.v \in DoubleBelow THEN q - 1
                     ELSE IF (0 - td.v) \in DoubleBelow THEN q + 1
                     ELSE q]

\* request.ttl_milliseconds = n: the wire field is an unsigned 64-bit integer,
\* so a negative value is refused by the message class
set_ttl_milliseconds(n) ==
    IF n < 0 THEN Exc("ValueError", "Value out of range") ELSE NoExc

\* rendering a value inside a log message
str_exc(x) ==
    IF x.t = "Unprintable" THEN Exc("RuntimeError", "__str__ failed") ELSE NoExc

(***************************************************************************)
(* _ScsDataClient: logging, TTL selection, the except clause               *)
(***************************************************************************)
NoReq == [none |-> TRUE]
NoValue == [none |-> TRUE]

Trace(text) == [kind |-> "trace", what |-> text, req |-> NoReq, metadata |-> <<>>, timeout |-> 0]
Warning(text) == [kind |-> "warning", what |-> text, req |-> NoReq, metadata |-> <<>>, timeout |-> 0]
Rpc(method, request, metadata, timeout) ==
    [kind |-> "rpc", what |-> method, req |-> request, metadata |-> metadata, timeout |-> timeout]

_log_received_response(request_type) == Trace("Received a " \o request_type \o " response")
_log_issuing_request(request_type) == Trace("Issuing a " \o request_type \o " request")
_log_request_error(request_type) == Warning(request_type \o " failed with exception")

ttl_or_default_milliseconds(self, ttl) ==
    LET which_ttl == IF ttl.t # "NoneType" THEN ttl ELSE self._default_ttl
    IN int_total_seconds_times_1000(which_ttl)

collection_ttl_or_default_milliseconds(self, collection_ttl) ==
    LET a == attr_ttl(collection_ttl)
    IN IF a.exc # NoExc THEN [exc |-> a.exc, val |-> 0]
       ELSE ttl_or_default_milliseconds(self, a.val)

\* a faulty except clause that catches SDK exceptions only
except_only_SdkException(e) == e.cls \in SdkExceptions

\* `except Exception as e`: which raised exceptions the clause catches
except_Exception(e) == TRUE

\* leaving the try block with exception e after the events ev
Except(op, family, log_name, ev, e) ==
    IF except_Exception(e)
    THEN [op |-> op, family |-> family, variant |-> "Error", value |-> NoValue,
          err |-> convert_error(e), raised |-> NoExc,
          events |-> Append(ev, _log_request_error(log_name))]
    ELSE [op |-> op, family |-> family, variant |-> "NoReturn", value |-> NoValue,
          err |-> NoErr, raised |-> e, events |-> ev]

\* a return statement of the try block
Return(op, family, variant, value, ev) ==
    [op |-> op, family |-> family, variant |-> variant, value |-> value,
     err |-> NoErr, raised |-> NoExc, events |-> ev]

RpcError(reply) == Exc("RpcError", reply.status)

(***************************************************************************)
(* _ScsDataClient.set_if_not_exists                                        *)
(***************************************************************************)
\* a faulty interpretation that reads 'stored' as NotStored and 'not_stored' as Stored
set_if_not_exists_result_swapped(response) ==
    LET result == WhichOneof(response)
    IN IF result = "stored" THEN [exc |-> NoExc, variant |-> "NotStored"]
       ELSE IF result = "not_stored" THEN [exc |-> NoExc, variant |-> "Stored"]
       ELSE [exc |-> UnknownException("SetIfNotExists responded with an unknown result"),
             variant |-> "NoReturn"]

\* lines 212-218: the response's discriminator
set_if_not_exists_result(response) ==
    LET result == WhichOneof(response)
    IN IF result = "stored" THEN [exc |-> NoExc, variant |-> "Stored"]
       ELSE IF result = "not_stored" THEN [exc |-> NoExc, variant |-> "NotStored"]
       ELSE [exc |-> UnknownException("SetIfNotExists responded with an unknown result"),
             variant |-> "NoReturn"]

\* a faulty set_if_not_exists that logs the response before the RPC is made
set_if_not_exists_receives_before_rpc(self, cache_name, key, value, ttl, reply) ==
    LET op == "set_if_not_exists"
        fam == "CacheSetIfNotExists"
        e0 == str_exc(key)
        issuing == <<_log_issuing_request("SetIfNotExists"),
                     _log_received_response("SetIfNotExists")>>
        item_ttl == IF ttl.t = "NoneType" THEN self._default_ttl ELSE ttl
        k == _as_bytes(key, "Unsupported type for key: ")
        b == _as_bytes(value, "Unsupported type for value: ")
        ms == int_total_seconds_times_1000(item_ttl)
        e1 == FirstExc(<<_validate_cache_name(cache_name), _validate_ttl(item_ttl),
                         k.exc, b.exc, ms.exc, set_ttl_milliseconds(ms.val)>>)
        request == [cache_key |-> k.val, cache_body |-> b.val, ttl_milliseconds |-> ms.val]
        sent == Append(issuing, Rpc("SetIfNotExists", request, make_metadata(cache_name),
                                    self._default_deadline_seconds))
        r == set_if_not_exists_result(reply)
    IN  IF e0 # NoExc THEN Except(op, fam, op, <<>>, e0)
        ELSE IF e1 # NoExc THEN Except(op, fam, op, issuing, e1)
        ELSE IF reply.kind = "rpc_error" THEN Except(op, fam, op, sent, RpcError(reply))
        ELSE IF r.exc # NoExc THEN Except(op, fam, op, sent, r.exc)
        ELSE Return(op, fam, r.variant, NoValue, sent)

set_if_not_exists(self, cache_name, key, value, ttl, reply) ==
    LET op == "set_if_not_exists"
        fam == "CacheSetIfNotExists"
        e0 == str_exc(key)
        issuing == <<_log_issuing_request("SetIfNotExists")>>
        item_ttl == IF ttl.t = "NoneType" THEN self._default_ttl ELSE ttl
        k == _as_bytes(key, "Unsupported type for key: ")
        b == _as_bytes(value, "Unsupported type for value: ")
        ms == int_total_seconds_times_1000(item_ttl)
        e1 == FirstExc(<<_validate_cache_name(cache_name), _validate_ttl(item_ttl),
                         k.exc, b.exc, ms.exc, set_ttl_milliseconds(ms.val)>>)
        request == [cache_key |-> k.val, cache_body |-> b.val, ttl_milliseconds |-> ms.val]
        sent == Append(issuing, Rpc("SetIfNotExists", request, make_metadata(cache_name),
                                    self._default_deadline_seconds))
        received == Append(sent, _log_received_response("SetIfNotExists"))
        r == set_if_not_exists_result(reply)
    IN  IF e0 # NoExc THEN Except(op, fam, op, <<>>, e0)
        ELSE IF e1 # NoExc THEN Except(op, fam, op, issuing, e1)
        ELSE IF reply.kind = "rpc_error" THEN Except(op, fam, op, sent, RpcError(reply))
        ELSE IF r.exc # NoExc THEN Except(op, fam, op, received, r.exc)
        ELSE Return(op, fam, r.variant, NoValue, received)

(***************************************************************************)
(* _ScsDataClient: dictionary operations                                   *)
(***************************************************************************)
UNSUPPORTED_DICTIONARY_NAME_TYPE_MSG == "Unsupported type for dictionary_name: "
UNSUPPORTED_DICTIONARY_FIELD_TYPE_MSG == "Unsupported type for field: "
UNSUPPORTED_DICTIONARY_FIELDS_TYPE_MSG == "Unsupported type for fields: "
UNSUPPORTED_DICTIONARY_ITEMS_TYPE_MSG == "Unsupported type for items: "

\* CacheDictionaryGetField.Miss() and CacheDictionaryGetField.Hit(value, field)
GetFieldMiss == [variant |-> "Miss", has_field |-> FALSE, field_bytes |-> <<>>,
                 has_value |-> FALSE, value_bytes |-> <<>>]
GetFieldHit(value_bytes, field_bytes) ==
    [variant |-> "Hit", has_field |-> TRUE, field_bytes |-> field_bytes,
     has_value |-> TRUE, value_bytes |-> value_bytes]

\* lines 292-295: one per-field result
get_field_response(field, get_response) ==
    IF get_response.result = Miss THEN GetFieldMiss
    ELSE GetFieldHit(get_response.cache_body, field)

\* a faulty pairing that matches the i-th item with the (i+1)-th field
RECURSIVE zip_drop_first(_, _)
zip_drop_first(bytes_fields, items) ==
    IF Len(bytes_fields) <= 1 \/ items = <<>> THEN <<>>
    ELSE <<get_field_response(Head(Tail(bytes_fields)), Head(items))>>
         \o zip_drop_first(Tail(bytes_fields), Tail(items))

\* lines 290-295: for field, get_response in zip(bytes_fields, response.found.items)
RECURSIVE zip_get_responses(_, _)
zip_get_responses(bytes_fields, items) ==
    IF bytes_fields = <<>> \/ items = <<>> THEN <<>>
    ELSE <<get_field_response(Head(bytes_fields), Head(items))>>
         \o zip_get_responses(Tail(bytes_fields), Tail(items))

\* lines 288-300
dictionary_get_fields_result(bytes_fields, response) ==
    LET type == WhichOneof(response)
    IN IF type = "found"
       THEN [exc |-> NoExc, variant |-> "Hit",
             value |-> zip_get_responses(bytes_fields, response.items)]
       ELSE IF type = "missing" THEN [exc |-> NoExc, variant |-> "Miss", value |-> <<>>]
       ELSE [exc |-> UnknownException("Unknown dictionary field"), variant |-> "NoReturn",
             value |-> <<>>]

dictionary_get_fields(self, cache_name, dictionary_name, fields, reply) ==
    LET op == "dictionary_get_fields"
        fam == "CacheDictionaryGetFields"
        e0 == str_exc(dictionary_name)
        issuing == <<_log_issuing_request("DictionaryGet")>>
        n == _as_bytes(dictionary_name, UNSUPPORTED_DICTIONARY_NAME_TYPE_MSG)
        bytes_fields == _gen_dictionary_fields_as_bytes(fields, UNSUPPORTED_DICTIONARY_FIELDS_TYPE_MSG)
        e1 == FirstExc(<<_validate_cache_name(cache_name),
                         _validate_dictionary_name(dictionary_name), n.exc, bytes_fields.exc>>)
        request == [dictionary_name |-> n.val, fields |-> bytes_fields.val]
        sent == Append(issuing, Rpc("DictionaryGet", request, make_metadata(cache_name),
                                    self._default_deadline_seconds))
        received == Append(sent, _log_received_response("DictionaryGet"))
        r == dictionary_get_fields_result(bytes_fields.val, reply)
    IN  IF e0 # NoExc THEN Except(op, fam, op, <<>>, e0)
        ELSE IF e1 # NoExc THEN Except(op, fam, op, issuing, e1)
        ELSE IF reply.kind = "rpc_error" THEN Except(op, fam, op, sent, RpcError(reply))
        ELSE IF r.exc # NoExc THEN Except(op, fam, op, received, r.exc)
        ELSE Return(op, fam, r.variant, r.value, received)

\* lines 321-327
dictionary_fetch_result(response) ==
    LET type == WhichOneof(response)
    IN IF type = "missing" THEN [exc |-> NoExc, variant |-> "Miss"]
       ELSE IF type = "found" THEN [exc |-> NoExc, variant |-> "Hit"]
       ELSE [exc |-> UnknownException("Unknown dictionary field"), variant |-> "NoReturn"]

dictionary_fetch(self, cache_name, dictionary_name, reply) ==
    LET op == "dictionary_fetch"
        fam == "CacheDictionaryFetch"
        e0 == str_exc(dictionary_name)
        issuing == <<_log_issuing_request("DictionaryFetch")>>
        n == _as_bytes(dictionary_name, UNSUPPORTED_DICTIONARY_NAME_TYPE_MSG)
        e1 == FirstExc(<<_validate_cache_name(cache_name),
                         _validate_dictionary_name(dictionary_name), n.exc>>)
        request == [dictionary_name |-> n.val]
        sent == Append(issuing, Rpc("DictionaryFetch", request, make_metadata(cache_name),
                                    self._default_deadline_seconds))
        received == Append(sent, _log_received_response("DictionaryFetch"))
        r == dictionary_fetch_result(reply)
    IN  IF e0 # NoExc THEN Except(op, fam, op, <<>>, e0)
        ELSE IF e1 # NoExc THEN Except(op, fam, op, issuing, e1)
        ELSE IF reply.kind = "rpc_error" THEN Except(op, fam, op, sent, RpcError(reply))
        ELSE IF r.exc # NoExc THEN Except(op, fam, op, received, r.exc)
        ELSE Return(op, fam, r.variant, reply.payload, received)

\* request.amount = amount: the wire field is an integer
set_amount(amount) ==
    IF amount.t = "int" THEN NoExc ELSE Exc("TypeError", "amount has type " \o amount.t)

dictionary_increment(self, cache_name, dictionary_name, field, amount, ttl, reply) ==
    LET op == "dictionary_increment"
        fam == "CacheDictionaryIncrement"
        e0 == str_exc(dictionary_name)
        issuing == <<_log_issuing_request("DictionaryIncrement")>>
        n == _as_bytes(dictionary_name, UNSUPPORTED_DICTIONARY_NAME_TYPE_MSG)
        f == _as_bytes(field, UNSUPPORTED_DICTIONARY_FIELD_TYPE_MSG)
        ms == collection_ttl_or_default_milliseconds(self, ttl)
        rt == attr_refresh_ttl(ttl)
        e1 == FirstExc(<<_validate_cache_name(cache_name),
                         _validate_dictionary_name(dictionary_name), n.exc, f.exc,
                         set_amount(amount), ms.exc, set_ttl_milliseconds(ms.val), rt.exc>>)
        request == [dictionary_name |-> n.val, field |-> f.val, amount |-> amount.v,
                    ttl_milliseconds |-> ms.val, refresh_ttl |-> rt.val]
        sent == Append(issuing, Rpc("DictionaryIncrement", request, make_metadata(cache_name),
                                    self._default_deadline_seconds))
        received == Append(sent, _log_received_response("DictionaryIncrement"))
    IN  IF e0 # NoExc THEN Except(op, fam, op, <<>>, e0)
        ELSE IF e1 # NoExc THEN Except(op, fam, op, issuing, e1)
        ELSE IF reply.kind = "rpc_error" THEN Except(op, fam, op, sent, RpcError(reply))
        ELSE Return(op, fam, "Success", reply.payload, received)

dictionary_remove_fields(self, cache_name, dictionary_name, fields, reply) ==
    LET op == "dictionary_remove_fields"
        fam == "CacheDictionaryRemoveFields"
        e0 == str_exc(dictionary_name)
        issuing == <<_log_issuing_request("DictionaryDelete")>>
        n == _as_bytes(dictionary_name, UNSUPPORTED_DICTIONARY_NAME_TYPE_MSG)
        fs == _gen_dictionary_fields_as_bytes(fields, UNSUPPORTED_DICTIONARY_FIELDS_TYPE_MSG)
        e1 == FirstExc(<<_validate_cache_name(cache_name),
                         _validate_dictionary_name(dictionary_name), n.exc, fs.exc>>)
        request == [dictionary_name |-> n.val, fields |-> fs.val]
        sent == Append(issuing, Rpc("DictionaryDelete", request, make_metadata(cache_name),
                                    self._default_deadline_seconds))
        received == Append(sent, _log_received_response("DictionaryDelete"))
    IN  IF e0 # NoExc THEN Except(op, fam, op, <<>>, e0)
        ELSE IF e1 # NoExc THEN Except(op, fam, op, issuing, e1)
        ELSE IF reply.kind = "rpc_error" THEN Except(op, fam, op, sent, RpcError(reply))
        ELSE Return(op, fam, "Success", NoValue, received)

dictionary_set_fields(self, cache_name, dictionary_name, items, ttl, reply) ==
    LET op == "dictionary_set_fields"
        fam == "CacheDictionarySetFields"
        e0 == str_exc(dictionary_name)
        issuing == <<_log_issuing_request("DictionarySet")>>
        n == _as_bytes(dictionary_name, UNSUPPORTED_DICTIONARY_NAME_TYPE_MSG)
        its == _gen_dictionary_items_as_bytes(items, UNSUPPORTED_DICTIONARY_ITEMS_TYPE_MSG)
        ms == collection_ttl_or_default_milliseconds(self, ttl)
        rt == attr_refresh_ttl(ttl)
        e1 == FirstExc(<<_validate_cache_name(cache_name),
                         _validate_dictionary_name(dictionary_name), n.exc, its.exc,
                         ms.exc, set_ttl_milliseconds(ms.val), rt.exc>>)
        request == [dictionary_name |-> n.val, items |-> its.val,
                    ttl_milliseconds |-> ms.val, refresh_ttl |-> rt.val]
        sent == Append(issuing, Rpc("DictionarySet", request, make_metadata(cache_name),
                                    self._default_deadline_seconds))
        received == Append(sent, _log_received_response("DictionarySet"))
    IN  IF e0 # NoExc THEN Except(op, fam, op, <<>>, e0)
        ELSE IF e1 # NoExc THEN Except(op, fam, op, issuing, e1)
        ELSE IF reply.kind = "rpc_error" THEN Except(op, fam, op, sent, RpcError(reply))
        ELSE Return(op, fam, "Success", NoValue, received)

(***************************************************************************)
(* _ScsDataClient: list operations                                         *)
(***************************************************************************)
UNSUPPORTED_LIST_NAME_TYPE_MSG == "Unsupported type for list_name: "
UNSUPPORTED_LIST_VALUE_TYPE_MSG == "Unsupported type for value: "
UNSUPPORTED_LIST_VALUES_TYPE_MSG == "Unsupported type for values: "

\* if truncate_..._to_size is not None: request.truncate_..._to_size = it
set_truncate_to_size(size) ==
    IF size.t \in {"NoneType", "int"} THEN NoExc
    ELSE Exc("TypeError", "size has type " \o size.t)

list_concatenate_back(self, cache_name, list_name, values, ttl, truncate_front_to_size, reply) ==
    LET op == "list_concatenate_back"
        fam == "CacheListConcatenateBack"
        issuing == <<_log_issuing_request("ListConcatenateBack")>>
        n == _as_bytes(list_name, UNSUPPORTED_LIST_NAME_TYPE_MSG)
        vs == _gen_list_as_bytes(values, UNSUPPORTED_LIST_VALUES_TYPE_MSG)
        ms == collection_ttl_or_default_milliseconds(self, ttl)
        rt == attr_refresh_ttl(ttl)
        e1 == FirstExc(<<_validate_cache_name(cache_name), _validate_list_name(list_name),
                         n.exc, vs.exc, ms.exc, set_ttl_milliseconds(ms.val), rt.exc,
                         set_truncate_to_size(truncate_front_to_size)>>)
        request == [list_name |-> n.val, values |-> vs.val, ttl_milliseconds |-> ms.val,
                    refresh_ttl |-> rt.val, truncate_front_to_size |-> truncate_front_to_size]
        sent == Append(issuing, Rpc("ListConcatenateBack", request, make_metadata(cache_name),
                                    self._default_deadline_seconds))
        received == Append(sent, _log_received_response("ListConcatenateBack"))
    IN  IF e1 # NoExc THEN Except(op, fam, op, issuing, e1)
        ELSE IF reply.kind = "rpc_error" THEN Except(op, fam, op, sent, RpcError(reply))
        ELSE Return(op, fam, "Success", reply.payload, received)

list_concatenate_front(self, cache_name, list_name, values, ttl, truncate_back_to_size, reply) ==
    LET op == "list_concatenate_front"
        fam == "CacheListConcatenateFront"
        issuing == <<_log_issuing_request("ListConcatenateFront")>>
        n == _as_bytes(list_name, UNSUPPORTED_LIST_NAME_TYPE_MSG)
        vs == _gen_list_as_bytes(values, UNSUPPORTED_LIST_VALUES_TYPE_MSG)
        ms == collection_ttl_or_default_milliseconds(self, ttl)
        rt == attr_refresh_ttl(ttl)
        e1 == FirstExc(<<_validate_cache_name(cache_name), _validate_list_name(list_name),
                         n.exc, vs.exc, ms.exc, set_ttl_milliseconds(ms.val), rt.exc,
                         set_truncate_to_size(truncate_back_to_size)>>)
        request == [list_name |-> n.val, values |-> vs.val, ttl_milliseconds |-> ms.val,
                    refresh_ttl |-> rt.val, truncate_back_to_size |-> truncate_back_to_size]
        sent == Append(issuing, Rpc("ListConcatenateFront", request, make_metadata(cache_name),
                                    self._default_deadline_seconds))
        received == Append(sent, _log_received_response("ListConcatenateFront"))
    IN  IF e1 # NoExc THEN Except(op, fam, op, issuing, e1)
        ELSE IF reply.kind = "rpc_error" THEN Except(op, fam, op, sent, RpcError(reply))
        ELSE Return(op, fam, "Success", reply.payload, received)

\* a faulty interpretation that reads every discriminator but 'found' as a miss
list_fetch_result_unknown_is_miss(response) ==
    LET type == WhichOneof(response)
    IN IF type = "found" THEN [exc |-> NoExc, variant |-> "Hit"]
       ELSE [exc |-> NoExc, variant |-> "Miss"]

\* lines 503-509
list_fetch_result(response) ==
    LET type == WhichOneof(response)
    IN IF type = "missing" THEN [exc |-> NoExc, variant |-> "Miss"]
       ELSE IF type = "found" THEN [exc |-> NoExc, variant |-> "Hit"]
       ELSE [exc |-> UnknownException("Unknown list field"), variant |-> "NoReturn"]

list_fetch(self, cache_name, list_name, reply) ==
    LET op == "list_fetch"
        fam == "CacheListFetch"
        e0 == str_exc(list_name)
        issuing == <<_log_issuing_request("ListFetch")>>
        n == _as_bytes(list_name, UNSUPPORTED_LIST_NAME_TYPE_MSG)
        e1 == FirstExc(<<_validate_cache_name(cache_name), _validate_list_name(list_name), n.exc>>)
        request == [list_name |-> n.val]
        sent == Append(issuing, Rpc("ListFetch", request, make_metadata(cache_name),
                                    self._default_deadline_seconds))
        received == Append(sent, _log_received_response("ListFetch"))
        r == list_fetch_result(reply)
    IN  IF e0 # NoExc THEN Except(op, fam, op, <<>>, e0)
        ELSE IF e1 # NoExc THEN Except(op, fam, op, issuing, e1)
        ELSE IF reply.kind = "rpc_error" THEN Except(op, fam, op, sent, RpcError(reply))
        ELSE IF r.exc # NoExc THEN Except(op, fam, op, received, r.exc)
        ELSE Return(op, fam, r.variant, reply.payload, received)

\* lines 528-534
list_length_result(response) ==
    LET type == WhichOneof(response)
    IN IF type = "missing" THEN [exc |-> NoExc, variant |-> "Miss"]
       ELSE IF type = "found" THEN [exc |-> NoExc, variant |-> "Hit"]
       ELSE [exc |-> UnknownException("Unknown list field"), variant |-> "NoReturn"]

list_length(self, cache_name, list_name, reply) ==
    LET op == "list_length"
        fam == "CacheListLength"
        e0 == str_exc(list_name)
        issuing == <<_log_issuing_request("ListLength")>>
        n == _as_bytes(list_name, UNSUPPORTED_LIST_NAME_TYPE_MSG)
        e1 == FirstExc(<<_validate_cache_name(cache_name), _validate_list_name(list_name), n.exc>>)
        request == [list_name |-> n.val]
        sent == Append(issuing, Rpc("ListLength", request, make_metadata(cache_name),
                                    self._default_deadline_seconds))
        received == Append(sent, _log_received_response("ListLength"))
        r == list_length_result(reply)
    IN  IF e0 # NoExc THEN Except(op, fam, op, <<>>, e0)
        ELSE IF e1 # NoExc THEN Except(op, fam, op, issuing, e1)
        ELSE IF reply.kind = "rpc_error" THEN Except(op, fam, op, sent, RpcError(reply))
        ELSE IF r.exc # NoExc THEN Except(op, fam, op, received, r.exc)
        ELSE Return(op, fam, r.variant, reply.payload, received)

\* lines 553-559
list_pop_back_result(response) ==
    LET type == WhichOneof(response)
    IN IF type = "missing" THEN [exc |-> NoExc, variant |-> "Miss"]
       ELSE IF type = "found" THEN [exc |-> NoExc, variant |-> "Hit"]
       ELSE [exc |-> UnknownException("Unknown list field"), variant |-> "NoReturn"]

list_pop_back(self, cache_name, list_name, reply) ==
    LET op == "list_pop_back"
        fam == "CacheListPopBack"
        e0 == str_exc(list_name)
        issuing == <<_log_issuing_request("ListPopBack")>>
        n == _as_bytes(list_name, UNSUPPORTED_LIST_NAME_TYPE_MSG)
        e1 == FirstExc(<<_validate_cache_name(cache_name), _validate_list_name(list_name), n.exc>>)
        request == [list_name |-> n.val]
        sent == Append(issuing, Rpc("ListPopBack", request, make_metadata(cache_name),
                                    self._default_deadline_seconds))
        received == Append(sent, _log_received_response("ListPopBack"))
        r == list_pop_back_result(reply)
    IN  IF e0 # NoExc THEN Except(op, fam, op, <<>>, e0)
        ELSE IF e1 # NoExc THEN Except(op, fam, op, issuing, e1)
        ELSE IF reply.kind = "rpc_error" THEN Except(op, fam, op, sent, RpcError(reply))
        ELSE IF r.exc # NoExc THEN Except(op, fam, op, received, r.exc)
        ELSE Return(op, fam, r.variant, reply.payload, received)

\* lines 578-584
list_pop_front_result(response) ==
    LET type == WhichOneof(response)
    IN IF type = "missing" THEN [exc |-> NoExc, variant |-> "Miss"]
       ELSE IF type = "found" THEN [exc |-> NoExc, variant |-> "Hit"]
       ELSE [exc |-> UnknownException("Unknown list field"), variant |-> "NoReturn"]

list_pop_front(self, cache_name, list_name, reply) ==
    LET op == "list_pop_front"
        fam == "CacheListPopFront"
        e0 == str_exc(list_name)
        issuing == <<_log_issuing_request("ListPopFront")>>
        n == _as_bytes(list_name, UNSUPPORTED_LIST_NAME_TYPE_MSG)
        e1 == FirstExc(<<_validate_cache_name(cache_name), _validate_list_name(list_name), n.exc>>)
        request == [list_name |-> n.val]
        sent == Append(issuing, Rpc("ListPopFront", request, make_metadata(cache_name),
                                    self._default_deadline_seconds))
        received == Append(sent, _log_received_response("ListPopFront"))
        r == list_pop_front_result(reply)
    IN  IF e0 # NoExc THEN Except(op, fam, op, <<>>, e0)
        ELSE IF e1 # NoExc THEN Except(op, fam, op, issuing, e1)
        ELSE IF reply.kind = "rpc_error" THEN Except(op, fam, op, sent, RpcError(reply))
        ELSE IF r.exc # NoExc THEN Except(op, fam, op, received, r.exc)
        ELSE Return(op, fam, r.variant, reply.payload, received)

list_push_back(self, cache_name, list_name, value, ttl, truncate_front_to_size, reply) ==
    LET op == "list_push_back"
        fam == "CacheListPushBack"
        issuing == <<_log_issuing_request("ListPushBack")>>
        n == _as_bytes(list_name, UNSUPPORTED_LIST_NAME_TYPE_MSG)
        b == _as_bytes(value, UNSUPPORTED_LIST_VALUE_TYPE_MSG)
        ms == collection_ttl_or_default_milliseconds(self, ttl)
        rt == attr_refresh_ttl(ttl)
        e1 == FirstExc(<<_validate_cache_name(cache_name), _validate_list_name(list_name),
                         n.exc, b.exc, ms.exc, set_ttl_milliseconds(ms.val), rt.exc,
                         set_truncate_to_size(truncate_front_to_size)>>)
        request == [list_name |-> n.val, value |-> b.val, ttl_milliseconds |-> ms.val,
                    refresh_ttl |-> rt.val, truncate_front_to_size |-> truncate_front_to_size]
        sent == Append(issuing, Rpc("ListPushBack", request, make_metadata(cache_name),
                                    self._default_deadline_seconds))
        received == Append(sent, _log_received_response("ListPushBack"))
    IN  IF e1 # NoExc THEN Except(op, fam, op, issuing, e1)
        ELSE IF reply.kind = "rpc_error" THEN Except(op, fam, op, sent, RpcError(reply))
        ELSE Return(op, fam, "Success", reply.payload, received)

list_push_front(self, cache_name, list_name, value, ttl, truncate_back_to_size, reply) ==
    LET op == "list_push_front"
        fam == "CacheListPushFront"
        issuing == <<_log_issuing_request("ListPushFront")>>
        n == _as_bytes(list_name, UNSUPPORTED_LIST_NAME_TYPE_MSG)
        b == _as_bytes(value, UNSUPPORTED_LIST_VALUE_TYPE_MSG)
        ms == collection_ttl_or_default_milliseconds(self, ttl)
        rt == attr_refresh_ttl(ttl)
        e1 == FirstExc(<<_validate_cache_name(cache_name), _validate_list_name(list_name),
                         n.exc, b.exc, ms.exc, set_ttl_milliseconds(ms.val), rt.exc,
                         set_truncate_to_size(truncate_back_to_size)>>)
        request == [list_name |-> n.val, value |-> b.val, ttl_milliseconds |-> ms.val,
                    refresh_ttl |-> rt.val, truncate_back_to_size |-> truncate_back_to_size]
        sent == Append(issuing, Rpc("ListPushFront", request, make_metadata(cache_name),
                                    self._default_deadline_seconds))
        received == Append(sent, _log_received_response("ListPushFront"))
    IN  IF e1 # NoExc THEN Except(op, fam, op, issuing, e1)
        ELSE IF reply.kind = "rpc_error" THEN Except(op, fam, op, sent, RpcError(reply))
        ELSE Return(op, fam, "Success", reply.payload, received)

list_remove_value(self, cache_name, list_name, value, reply) ==
    LET op == "list_remove_value"
        fam == "CacheListRemoveValue"
        issuing == <<_log_issuing_request("ListRemoveValue")>>
        n == _as_bytes(list_name, UNSUPPORTED_LIST_NAME_TYPE_MSG)
        b == _as_bytes(value, UNSUPPORTED_LIST_VALUE_TYPE_MSG)
        e1 == FirstExc(<<_validate_cache_name(cache_name), _validate_list_name(list_name),
                         n.exc, b.exc>>)
        request == [list_name |-> n.val, all_elements_with_value |-> b.val]
        sent == Append(issuing, Rpc("ListRemove", request, make_metadata(cache_name),
                                    self._default_deadline_seconds))
        received == Append(sent, _log_received_response("ListRemoveValue"))
    IN  IF e1 # NoExc THEN Except(op, fam, op, issuing, e1)
        ELSE IF reply.kind = "rpc_error" THEN Except(op, fam, op, sent, RpcError(reply))
        ELSE Return(op, fam, "Success", NoValue, received)

(***************************************************************************)
(* _ScsDataClient: set operations                                          *)
(***************************************************************************)
UNSUPPORTED_SET_NAME_TYPE_MSG == "Unsupported type for set_name: "
UNSUPPORTED_SET_ELEMENTS_TYPE_MSG == "Unsupported tyoe for elements: "

set_add_elements(self, cache_name, set_name, elements, ttl, reply) ==
    LET op == "set_add_elements"
        fam == "CacheSetAddElements"
        log_name == "set_remove_elements"
        issuing == <<_log_issuing_request("SetAddElements")>>
        a == attr_ttl(ttl)
        item_ttl == IF a.val.t = "NoneType" THEN self._default_ttl ELSE a.val
        n == _as_bytes(set_name, UNSUPPORTED_SET_NAME_TYPE_MSG)
        es == _gen_set_input_as_bytes(elements, UNSUPPORTED_SET_ELEMENTS_TYPE_MSG)
        ms == int_total_seconds_times_1000(item_ttl)
        rt == attr_refresh_ttl(ttl)
        e1 == FirstExc(<<_validate_cache_name(cache_name), _validate_set_name(set_name),
                         a.exc, n.exc, es.exc, ms.exc, set_ttl_milliseconds(ms.val), rt.exc>>)
        request == [set_name |-> n.val, elements |-> es.val, ttl_milliseconds |-> ms.val,
                    refresh_ttl |-> rt.val]
        sent == Append(issuing, Rpc("SetUnion", request, make_metadata(cache_name),
                                    self._default_deadline_seconds))
        received == Append(sent, _log_received_response("SetAddElements"))
    IN  IF e1 # NoExc THEN Except(op, fam, log_name, issuing, e1)
        ELSE IF reply.kind = "rpc_error" THEN Except(op, fam, log_name, sent, RpcError(reply))
        ELSE Return(op, fam, "Success", NoValue, received)

\* lines 729-735
set_fetch_result(response) ==
    LET type == WhichOneof(response)
    IN IF type = "missing" THEN [exc |-> NoExc, variant |-> "Miss"]
       ELSE IF type = "found" THEN [exc |-> NoExc, variant |-> "Hit"]
       ELSE [exc |-> UnknownException("Unknown set field in response"), variant |-> "NoReturn"]

set_fetch(self, cache_name, set_name, reply) ==
    LET op == "set_fetch"
        fam == "CacheSetFetch"
        e0 == str_exc(set_name)
        issuing == <<_log_issuing_request("SetFetch")>>
        n == _as_bytes(set_name, UNSUPPORTED_SET_NAME_TYPE_MSG)
        e1 == FirstExc(<<_validate_cache_name(cache_name), _validate_set_name(set_name), n.exc>>)
        request == [set_name |-> n.val]
        sent == Append(issuing, Rpc("SetFetch", request, make_metadata(cache_name),
                                    self._default_deadline_seconds))
        received == Append(sent, _log_received_response("SetFetch"))
        r == set_fetch_result(reply)
    IN  IF e0 # NoExc THEN Except(op, fam, op, <<>>, e0)
        ELSE IF e1 # NoExc THEN Except(op, fam, op, issuing, e1)
        ELSE IF reply.kind = "rpc_error" THEN Except(op, fam, op, sent, RpcError(reply))
        ELSE IF r.exc # NoExc THEN Except(op, fam, op, received, r.exc)
        ELSE Return(op, fam, r.variant, reply.payload, received)

set_remove_elements(self, cache_name, set_name, elements, reply) ==
    LET op == "set_remove_elements"
        fam == "CacheSetRemoveElements"
        issuing == <<_log_issuing_request("SetRemoveElements")>>
        n == _as_bytes(set_name, UNSUPPORTED_SET_NAME_TYPE_MSG)
        es == _gen_set_input_as_bytes(elements, UNSUPPORTED_SET_ELEMENTS_TYPE_MSG)
        e1 == FirstExc(<<_validate_cache_name(cache_name), _validate_set_name(set_name),
                         n.exc, es.exc>>)
        request == [set_name |-> n.val, elements |-> es.val]
        sent == Append(issuing, Rpc("SetDifference", request, make_metadata(cache_name),
                                    self._default_deadline_seconds))
        received == Append(sent, _log_received_response("SetRemoveElements"))
    IN  IF e1 # NoExc THEN Except(op, fam, op, issuing, e1)
        ELSE IF reply.kind = "rpc_error" THEN Except(op, fam, op, sent, RpcError(reply))
        ELSE Return(op, fam, "Success", NoValue, received)

(***************************************************************************)
(* _ScsDataClient: scalar operations that delegate to                      *)
(* momento.internal.common (wrap_with_error_handling and the request       *)
(* builders / response constructors of _data_client_scalar_ops).           *)
(***************************************************************************)
\* try: validate the cache name, prepare, execute, construct; except: Error
wrap_with_error_handling(self, op, fam, cache_name, request_type, prepared, reply, constructed) ==
    LET issuing == <<_log_issuing_request(request_type)>>
        e1 == FirstExc(<<_validate_cache_name(cache_name), prepared.exc>>)
        sent == Append(issuing, Rpc(request_type, prepared.val, make_metadata(cache_name),
                                    self._default_deadline_seconds))
        received == Append(sent, _log_received_response(request_type))
    IN  IF e1 # NoExc THEN Except(op, fam, request_type, issuing, e1)
        ELSE IF reply.kind = "rpc_error" THEN Except(op, fam, request_type, sent, RpcError(reply))
        ELSE IF constructed.exc # NoExc THEN Except(op, fam, request_type, received, constructed.exc)
        ELSE Return(op, fam, constructed.variant, reply.payload, received)

prepare_set_request(key, value, ttl, default_ttl) ==
    LET item_ttl == IF ttl.t = "NoneType" THEN default_ttl ELSE ttl
        k == _as_bytes(key, "Unsupported type for key: ")
        b == _as_bytes(value, "Unsupported type for value: ")
        ms == int_total_seconds_times_1000(item_ttl)
    IN [exc |-> FirstExc(<<_validate_ttl(item_ttl), k.exc, b.exc, ms.exc,
                           set_ttl_milliseconds(ms.val)>>),
        val |-> [cache_key |-> k.val, cache_body |-> b.val, ttl_milliseconds |-> ms.val]]

prepare_get_request(key) ==
    LET k == _as_bytes(key, "Unsupported type for key: ")
    IN [exc |-> k.exc, val |-> [cache_key |-> k.val]]

prepare_delete_request(key) ==
    LET k == _as_bytes(key, "Unsupported type for key: ")
    IN [exc |-> k.exc, val |-> [cache_key |-> k.val]]

prepare_increment_request(key, amount, ttl, default_ttl) ==
    LET item_ttl == IF ttl.t = "NoneType" THEN default_ttl ELSE ttl
        k == _as_bytes(key, "Unsupported type for key: ")
        ms == int_total_seconds_times_1000(item_ttl)
    IN [exc |-> FirstExc(<<_validate_ttl(item_ttl), k.exc, set_amount(amount), ms.exc,
                           set_ttl_milliseconds(ms.val)>>),
        val |-> [cache_key |-> k.val, amount |-> amount.v, ttl_milliseconds |-> ms.val]]

construct_set_response(response) == [exc |-> NoExc, variant |-> "Success"]
construct_delete_response(response) == [exc |-> NoExc, variant |-> "Success"]
construct_increment_response(response) == [exc |-> NoExc, variant |-> "Success"]
construct_get_response(response) ==
    IF response.result = Hit THEN [exc |-> NoExc, variant |-> "Hit"]
    ELSE IF response.result = Miss THEN [exc |-> NoExc, variant |-> "Miss"]
    ELSE [exc |-> UnknownException("Get responded with an unknown result"), variant |-> "NoReturn"]

\* a faulty set that hands the key to the request builder as the value
set_passes_key_as_value(self, cache_name, key, value, ttl, reply) ==
    wrap_with_error_handling(self, "set", "CacheSet", cache_name, "Set",
        prepare_set_request(key, key, ttl, self._default_ttl), reply,
        construct_set_response(reply))

set(self, cache_name, key, value, ttl, reply) ==
    wrap_with_error_handling(self, "set", "CacheSet", cache_name, "Set",
        prepare_set_request(key, value, ttl, self._default_ttl), reply,
        construct_set_response(reply))

get(self, cache_name, key, reply) ==
    wrap_with_error_handling(self, "get", "CacheGet", cache_name, "Get",
        prepare_get_request(key), reply, construct_get_response(reply))

\* a faulty delete that issues a Get request
delete_as_get(self, cache_name, key, reply) ==
    wrap_with_error_handling(self, "delete", "CacheDelete", cache_name, "Get",
        prepare_delete_request(key), reply, construct_delete_response(reply))

delete(self, cache_name, key, reply) ==
    wrap_with_error_handling(self, "delete", "CacheDelete", cache_name, "Delete",
        prepare_delete_request(key), reply, construct_delete_response(reply))

increment(self, cache_name, key, amount, ttl, reply) ==
    wrap_with_error_handling(self, "increment", "CacheIncrement", cache_name, "Increment",
        prepare_increment_request(key, amount, ttl, self._default_ttl), reply,
        construct_increment_response(reply))

(***************************************************************************)
(* Bounds and the inputs the calls are tried on                            *)
(***************************************************************************)
MaxFields == 2      \* longest list of fields / values / elements passed in
MaxItems == 2       \* most per-field items in a DictionaryGet response
MaxThreads == 2     \* threads calling through the interceptors
MaxCalls == 3       \* calls made through the interceptors in one run

SeqUpTo(S, n) == UNION {[1..k -> S] : k \in 0..n}

CacheNames == {PyStr(<<99>>), PyStr(<<>>), PyNone}
CollectionNames == {PyStr(<<100>>), PyStr(<<>>), PyInt(3), PyStr(<<55296>>), PyUnprintable}
Keys == {PyStr(<<107>>), PyStr(<<233>>), PyBytes(<<1>>), PyInt(1), PyNone, PyUnprintable}
Values == {PyStr(<<118>>), PyStr(<<8364>>), PyBytes(<<255>>), PyInt(1), PyNone}
Elements == {PyStr(<<102>>), PyBytes(<<103>>), PyInt(7)}
Ttls == {PyNone, PyInt(5), PyTimedelta(0 - 1000000), PyTimedelta(0), PyTimedelta(1),
         PyTimedelta(1001000), PyTimedelta(2000000)}
CollectionTtls ==
    {CollectionTtl(ttl, r) : ttl \in Ttls \ {PyTimedelta(1001000)}, r \in {TRUE}}
        \cup {CollectionTtl(PyNone, FALSE), PyNone}
Iterables == {PyList(xs) : xs \in SeqUpTo(Elements, MaxFields)} \cup {PyInt(9), PyStr(<<102, 103>>)}
Mappings == {PyDict(kvs) : kvs \in SeqUpTo(Elements \X {PyStr(<<118>>), PyNone}, 1)}
                \cup {PyList(<<>>)}
Amounts == {PyInt(1), PyStr(<<49>>)}
Sizes == {PyNone, PyInt(1)}
DefaultTtls == {PyTimedelta(2000000), PyTimedelta(500)}

GetItems == [result : {Invalid, Ok, Hit, Miss}, cache_body : {<<1>>}]

Reply(kind, status, oneof, result, items) ==
    [kind |-> kind, status |-> status, oneof |-> oneof, result |-> result, items |-> items,
     payload |-> PyInt(1)]
RpcFailures == {Reply("rpc_error", st, "None", Invalid, <<>>) : st \in {"DEADLINE_EXCEEDED", "UNAVAILABLE"}}
Responses(tags) == {Reply("response", "", tag, Invalid, <<>>) : tag \in tags}
PlainReplies == RpcFailures \cup Responses({"None"})
StoredReplies == RpcFailures \cup Responses({"stored", "not_stored", "None"})
FoundReplies == RpcFailures \cup Responses({"found", "missing", "None"})
DictionaryGetReplies ==
    RpcFailures \cup Responses({"missing", "None"})
        \cup {Reply("response", "", "found", Invalid, items) : items \in SeqUpTo(GetItems, MaxItems)}
GetReplies ==
    RpcFailures \cup {Reply("response", "", "None", r, <<>>) : r \in {Invalid, Hit, Miss}}

(***************************************************************************)
(* The data client as a state machine: one action per operation            *)
(***************************************************************************)
NoCall == [op |-> "none", family |-> "", variant |-> "", value |-> NoValue, err |-> NoErr,
           raised |-> NoExc, events |-> <<>>]
Idle == [args |-> NoValue, reply |-> NoValue, res |-> NoCall]

\* the client is between calls
Ready == last.res.op = "none"

Called(args, reply, res) ==
    /\ last' = [args |-> args, reply |-> reply, res |-> res]
    /\ UNCHANGED <<client, hdrVars, srvVars>>

Call_set_if_not_exists ==
    /\ Ready
    /\ \E c \in CacheNames, k \in Keys, v \in Values, ttl \in Ttls, reply \in StoredReplies :
        Called([cache_name |-> c, key |-> k, value |-> v, ttl |-> ttl], reply,
               set_if_not_exists(client, c, k, v, ttl, reply))

Call_set ==
    /\ Ready
    /\ \E c \in CacheNames, k \in Keys, v \in Values, ttl \in Ttls, reply \in PlainReplies :
        Called([cache_name |-> c, key |-> k, value |-> v, ttl |-> ttl], reply,
               set(client, c, k, v, ttl, reply))

Call_get ==
    /\ Ready
    /\ \E c \in CacheNames, k \in Keys, reply \in GetReplies :
        Called([cache_name |-> c, key |-> k], reply, get(client, c, k, reply))

Call_delete ==
    /\ Ready
    /\ \E c \in CacheNames, k \in Keys, reply \in PlainReplies :
        Called([cache_name |-> c, key |-> k], reply, delete(client, c, k, reply))

Call_increment ==
    /\ Ready
    /\ \E c \in CacheNames, k \in Keys, a \in Amounts, ttl \in Ttls, reply \in PlainReplies :
        Called([cache_name |-> c, key |-> k, amount |-> a, ttl |-> ttl], reply,
               increment(client, c, k, a, ttl, reply))

Call_dictionary_get_fields ==
    /\ Ready
    /\ \E c \in CacheNames, d \in CollectionNames, fs \in Iterables, reply \in DictionaryGetReplies :
        Called([cache_name |-> c, name |-> d, fields |-> fs], reply,
               dictionary_get_fields(client, c, d, fs, reply))

Call_dictionary_fetch ==
    /\ Ready
    /\ \E c \in CacheNames, d \in CollectionNames, reply \in FoundReplies :
        Called([cache_name |-> c, name |-> d], reply, dictionary_fetch(client, c, d, reply))

Call_dictionary_increment ==
    /\ Ready
    /\ \E c \in CacheNames, d \in CollectionNames, f \in Elements, a \in Amounts,
       ttl \in CollectionTtls, reply \in PlainReplies :
        Called([cache_name |-> c, name |-> d, field |-> f, amount |-> a, ttl |-> ttl], reply,
               dictionary_increment(client, c, d, f, a, ttl, reply))

Call_dictionary_remove_fields ==
    /\ Ready
    /\ \E c \in CacheNames, d \in CollectionNames, fs \in Iterables, reply \in PlainReplies :
        Called([cache_name |-> c, name |-> d, fields |-> fs], reply,
               dictionary_remove_fields(client, c, d, fs, reply))

Call_dictionary_set_fields ==
    /\ Ready
    /\ \E c \in CacheNames, d \in CollectionNames, its \in Mappings, ttl \in CollectionTtls,
       reply \in PlainReplies :
        Called([cache_name |-> c, name |-> d, items |-> its, ttl |-> ttl], reply,
               dictionary_set_fields(client, c, d, its, ttl, reply))

Call_list_concatenate_back ==
    /\ Ready
    /\ \E c \in CacheNames, l \in CollectionNames, vs \in Iterables, ttl \in CollectionTtls,
       sz \in Sizes, reply \in PlainReplies :
        Called([cache_name |-> c, name |-> l, values |-> vs, ttl |-> ttl, size |-> sz], reply,
               list_concatenate_back(client, c, l, vs, ttl, sz, reply))

Call_list_concatenate_front ==
    /\ Ready
    /\ \E c \in CacheNames, l \in CollectionNames, vs \in Iterables, ttl \in CollectionTtls,
       sz \in Sizes, reply \in PlainReplies :
        Called([cache_name |-> c, name |-> l, values |-> vs, ttl |-> ttl, size |-> sz], reply,
               list_concatenate_front(client, c, l, vs, ttl, sz, reply))

Call_list_fetch ==
    /\ Ready
    /\ \E c \in CacheNames, l \in CollectionNames, reply \in FoundReplies :
        Called([cache_name |-> c, name |-> l], reply, list_fetch(client, c, l, reply))

Call_list_length ==
    /\ Ready
    /\ \E c \in CacheNames, l \in CollectionNames, reply \in FoundReplies :
        Called([cache_name |-> c, name |-> l], reply, list_length(client, c, l, reply))

Call_list_pop_back ==
    /\ Ready
    /\ \E c \in CacheNames, l \in CollectionNames, reply \in FoundReplies :
        Called([cache_name |-> c, name |-> l], reply, list_pop_back(client, c, l, reply))

Call_list_pop_front ==
    /\ Ready
    /\ \E c \in CacheNames, l \in CollectionNames, reply \in FoundReplies :
        Called([cache_name |-> c, name |-> l], reply, list_pop_front(client, c, l, reply))

Call_list_push_back ==
    /\ Ready
    /\ \E c \in CacheNames, l \in CollectionNames, v \in Values, ttl \in CollectionTtls,
       sz \in Sizes, reply \in PlainReplies :
        Called([cache_name |-> c, name |-> l, value |-> v, ttl |-> ttl, size |-> sz], reply,
               list_push_back(client, c, l, v, ttl, sz, reply))

Call_list_push_front ==
    /\ Ready
    /\ \E c \in CacheNames, l \in CollectionNames, v \in Values, ttl \in CollectionTtls,
       sz \in Sizes, reply \in PlainReplies :
        Called([cache_name |-> c, name |-> l, value |-> v, ttl |-> ttl, size |-> sz], reply,
               list_push_front(client, c, l, v, ttl, sz, reply))

Call_list_remove_value ==
    /\ Ready
    /\ \E c \in CacheNames, l \in CollectionNames, v \in Values, reply \in PlainReplies :
        Called([cache_name |-> c, name |-> l, value |-> v], reply,
               list_remove_value(client, c, l, v, reply))

Call_set_add_elements ==
    /\ Ready
    /\ \E c \in CacheNames, n \in CollectionNames, es \in Iterables, ttl \in CollectionTtls,
       reply \in PlainReplies :
        Called([cache_name |-> c, name |-> n, elements |-> es, ttl |-> ttl], reply,
               set_add_elements(client, c, n, es, ttl, reply))

Call_set_fetch ==
    /\ Ready
    /\ \E c \in CacheNames, n \in CollectionNames, reply \in FoundReplies :
        Called([cache_name |-> c, name |-> n], reply, set_fetch(client, c, n, reply))

Call_set_remove_elements ==
    /\ Ready
    /\ \E c \in CacheNames, n \in CollectionNames, es \in Iterables, reply \in PlainReplies :
        Called([cache_name |-> c, name |-> n, elements |-> es], reply,
               set_remove_elements(client, c, n, es, reply))

\* the caller has looked at the response; the client is ready for the next call
Returned ==
    /\ last.res.op # "none"
    /\ last' = Idle
    /\ UNCHANGED <<client, hdrVars, srvVars>>

\* a constructed data client; no call is made through the channel's interceptor
\* while the data operations are examined
DataInit ==
    /\ client \in [_default_ttl : DefaultTtls, _default_deadline_seconds : {5}]
    /\ last = Idle
    /\ are_only_once_headers_sent = FALSE
    /\ interceptors = <<>>
    /\ threads = <<>>
    /\ calls = <<>>
    /\ store = {}
    /\ now = 0
    /\ hist = <<>>

DataNext ==
    \/ Call_set_if_not_exists
    \/ Call_set
    \/ Call_get
    \/ Call_delete
    \/ Call_increment
    \/ Call_dictionary_get_fields
    \/ Call_dictionary_fetch
    \/ Call_dictionary_increment
    \/ Call_dictionary_remove_fields
    \/ Call_dictionary_set_fields
    \/ Call_list_concatenate_back
    \/ Call_list_concatenate_front
    \/ Call_list_fetch
    \/ Call_list_length
    \/ Call_list_pop_back
    \/ Call_list_pop_front
    \/ Call_list_push_back
    \/ Call_list_push_front
    \/ Call_list_remove_value
    \/ Call_set_add_elements
    \/ Call_set_fetch
    \/ Call_set_remove_elements
    \/ Returned

Spec == DataInit /\ [][DataNext]_vars

(***************************************************************************)
(* _add_header_client_interceptor.py                                       *)
(***************************************************************************)
MaxInterceptors == 2    \* interceptor instances (clients) created in the process

Header(name, value) == [name |-> name, value |-> value]
once_only_headers == {"agent"}

is_only_once_header(header) == header.name \in once_only_headers
is_not_only_once_header(header) == header.name \notin once_only_headers

RECURSIVE filter_once(_)
filter_once(headers) ==
    IF headers = <<>> THEN <<>>
    ELSE (IF is_only_once_header(Head(headers)) THEN <<Head(headers)>> ELSE <<>>)
         \o filter_once(Tail(headers))

RECURSIVE filter_every_time(_)
filter_every_time(headers) ==
    IF headers = <<>> THEN <<>>
    ELSE (IF is_not_only_once_header(Head(headers)) THEN <<Head(headers)>> ELSE <<>>)
         \o filter_every_time(Tail(headers))

\* AddHeaderClientInterceptor.__init__
AddHeaderClientInterceptor(headers) ==
    [_headers_to_add_once |-> filter_once(headers),
     headers_to_add_every_time |-> filter_every_time(headers)]

\* metadata.append((header.name, header.value)) for each header, in order
RECURSIVE append_headers(_, _)
append_headers(metadata, headers) ==
    IF headers = <<>> THEN metadata
    ELSE append_headers(Append(metadata, <<Head(headers).name, Head(headers).value>>),
                        Tail(headers))

\* the namedtuple _ClientCallDetails(method, timeout, metadata, credentials)
_ClientCallDetails(method, timeout, metadata, credentials) ==
    [method |-> method, timeout |-> timeout, metadata |-> metadata,
     credentials |-> credentials]

\* a sanitizer that builds the new call details without the caller's timeout
sanitize_client_call_details_drops_timeout(client_call_details) ==
    IF client_call_details.metadata.t = "NoneType"
    THEN [exc |-> NoExc,
          details |-> _ClientCallDetails(client_call_details.method, PyNone,
                                         PyList(<<>>), client_call_details.credentials),
          same_object |-> FALSE]
    ELSE IF client_call_details.metadata.t = "list"
    THEN [exc |-> NoExc, details |-> client_call_details, same_object |-> TRUE]
    ELSE [exc |-> Exc("InvalidArgumentError",
                      "unexpected grpc client request metadata property passed to interceptor type="
                          \o TypeRepr(client_call_details.metadata)),
          details |-> client_call_details, same_object |-> FALSE]

\* sanitize_client_call_details: [exc, details, same_object]; same_object
\* tells that the returned call details are the caller's own object
sanitize_client_call_details(client_call_details) ==
    IF client_call_details.metadata.t = "NoneType"
    THEN [exc |-> NoExc,
          details |-> _ClientCallDetails(client_call_details.method,
                                         client_call_details.timeout,
                                         PyList(<<>>), client_call_details.credentials),
          same_object |-> FALSE]
    ELSE IF client_call_details.metadata.t = "list"
    THEN [exc |-> NoExc, details |-> client_call_details, same_object |-> TRUE]
    ELSE [exc |-> Exc("InvalidArgumentError",
                      "unexpected grpc client request metadata property passed to interceptor type="
                          \o TypeRepr(client_call_details.metadata)),
          details |-> client_call_details, same_object |-> FALSE]

HeaderLists ==
    {<<Header("authorization", "token"), Header("agent", "python")>>,
     <<Header("agent", "python")>>,
     <<Header("authorization", "token")>>}
IncomingMetadata == {PyNone, PyList(<<<<"cache", "c">>>>), [t |-> "tuple", v |-> <<>>]}
\* the call details the channel hands to the interceptor
IncomingDetails(metadata) ==
    _ClientCallDetails("/cache_client.Scs/Get", PyInt(5), metadata, PyNone)

Threads == 1..MaxThreads
IdleThread == [pc |-> "idle", icpt |-> 0, incoming |-> PyNone, metadata |-> <<>>, i |-> 0,
               details |-> IncomingDetails(PyNone), same_object |-> FALSE,
               flag_at_entry |-> FALSE, overlapped |-> FALSE]
InCall(t) == threads[t].pc # "idle"

\* a new client is created: its interceptor is built from the client's headers
Construct ==
    /\ Len(interceptors) < MaxInterceptors
    /\ \E headers \in HeaderLists :
        interceptors' = Append(interceptors, AddHeaderClientInterceptor(headers))
    /\ UNCHANGED <<dataVars, are_only_once_headers_sent, threads, calls>>

\* lines 52-55: a thread enters intercept_unary_unary: the call details are
\* sanitized and the every-time headers appended
Intercept_enter(t) ==
    /\ ~InCall(t)
    /\ Len(calls) + Cardinality({u \in Threads : InCall(u)}) < MaxCalls
    /\ \E icpt \in DOMAIN interceptors, incoming \in IncomingMetadata :
        LET new_client_call_details == sanitize_client_call_details(IncomingDetails(incoming))
            others == \E u \in Threads : InCall(u)
        IN  IF new_client_call_details.exc # NoExc
            THEN /\ calls' = Append(calls,
                        [icpt |-> icpt, incoming |-> incoming, metadata |-> <<>>,
                         raised |-> TRUE, continued |-> FALSE, failed |-> FALSE,
                         exc |-> new_client_call_details.exc,
                         details |-> new_client_call_details.details,
                         same_object |-> FALSE,
                         flag_at_entry |-> are_only_once_headers_sent,
                         overlapped |-> others])
                 /\ threads' = [u \in Threads |->
                        IF InCall(u) THEN [threads[u] EXCEPT !.overlapped = TRUE]
                        ELSE threads[u]]
            ELSE /\ threads' = [u \in Threads |->
                        IF u = t
                        THEN [pc |-> "check", icpt |-> icpt, incoming |-> incoming,
                              metadata |-> append_headers(new_client_call_details.details.metadata.v,
                                              interceptors[icpt].headers_to_add_every_time),
                              details |-> new_client_call_details.details,
                              same_object |-> new_client_call_details.same_object,
                              i |-> 0, flag_at_entry |-> are_only_once_headers_sent,
                              overlapped |-> others]
                        ELSE IF InCall(u) THEN [threads[u] EXCEPT !.overlapped = TRUE]
                        ELSE threads[u]]
                 /\ calls' = calls
    /\ UNCHANGED <<dataVars, are_only_once_headers_sent, interceptors>>

\* line 57: if not AddHeaderClientInterceptor.are_only_once_headers_sent
Intercept_check(t) ==
    /\ threads[t].pc = "check"
    /\ threads' = [threads EXCEPT ![t].pc =
                        IF ~are_only_once_headers_sent THEN "add_once" ELSE "continue",
                                  ![t].i = 1]
    /\ UNCHANGED <<dataVars, are_only_once_headers_sent, interceptors, calls>>

\* a faulty loop that sets the flag although it had no header left to append
Intercept_add_once_sets_flag_anyway(t) ==
    /\ threads[t].pc = "add_once"
    /\ LET once == interceptors[threads[t].icpt]._headers_to_add_once
           i == threads[t].i
       IN IF i <= Len(once)
          THEN threads' = [threads EXCEPT
                        ![t].metadata = Append(@, <<once[i].name, once[i].value>>),
                        ![t].i = i + 1]
          ELSE threads' = [threads EXCEPT ![t].pc = "continue"]
    /\ are_only_once_headers_sent' = TRUE
    /\ UNCHANGED <<dataVars, interceptors, calls>>

\* lines 58-60: one iteration of the loop over _headers_to_add_once
Intercept_add_once(t) ==
    /\ threads[t].pc = "add_once"
    /\ LET once == interceptors[threads[t].icpt]._headers_to_add_once
           i == threads[t].i
       IN IF i <= Len(once)
          THEN /\ threads' = [threads EXCEPT
                        ![t].metadata = Append(@, <<once[i].name, once[i].value>>),
                        ![t].i = i + 1]
               /\ are_only_once_headers_sent' = TRUE
          ELSE /\ threads' = [threads EXCEPT ![t].pc = "continue"]
               /\ UNCHANGED are_only_once_headers_sent
    /\ UNCHANGED <<dataVars, interceptors, calls>>

\* line 62: return continuation(new_client_call_details, request); the call
\* the continuation makes succeeds or fails
Intercept_continue(t) ==
    /\ threads[t].pc = "continue"
    /\ \E failed \in BOOLEAN :
        calls' = Append(calls,
            [icpt |-> threads[t].icpt, incoming |-> threads[t].incoming,
             metadata |-> threads[t].metadata, raised |-> FALSE, continued |-> TRUE,
             failed |-> failed, exc |-> NoExc,
             details |-> threads[t].details, same_object |-> threads[t].same_object,
             flag_at_entry |-> threads[t].flag_at_entry,
             overlapped |-> threads[t].overlapped])
    /\ threads' = [threads EXCEPT ![t] = IdleThread]
    /\ UNCHANGED <<dataVars, are_only_once_headers_sent, interceptors>>

HdrInit ==
    /\ are_only_once_headers_sent = FALSE
    /\ interceptors = <<>>
    /\ threads = [t \in Threads |-> IdleThread]
    /\ calls = <<>>
    /\ client = [_default_ttl |-> PyTimedelta(2000000), _default_deadline_seconds |-> 5]
    /\ last = Idle
    /\ store = {}
    /\ now = 0
    /\ hist = <<>>

HdrNext ==
    \/ Construct
    \/ \E t \in Threads : Intercept_enter(t)
    \/ \E t \in Threads : Intercept_check(t)
    \/ \E t \in Threads : Intercept_add_once(t)
    \/ \E t \in Threads : Intercept_continue(t)

SpecInterceptor == HdrInit /\ [][HdrNext]_vars

(***************************************************************************)
(* Vocabulary of the properties                                            *)
(***************************************************************************)
IsRpc(e) == e.kind = "rpc"
RpcEvents(res) == SelectSeq(res.events, IsRpc)
RpcCount(res) == Len(RpcEvents(res))

ValidName(x) == x.t = "str" /\ x.v # <<>>
Coercible(x) == x.t = "bytes" \/ (x.t = "str" /\ ~HasSurrogate(x.v))
PositiveTtl(x) == x.t = "timedelta" /\ x.v > 0
NonPositiveTtl(x) == x.t = "timedelta" /\ x.v <= 0
IterableCoercible(x) ==
    IsIterable(x) /\ \A i \in DOMAIN IterElements(x) : Coercible(IterElements(x)[i])
MappingCoercible(x) ==
    IsMapping(x) /\ \A i \in DOMAIN x.v : Coercible(x.v[i][1]) /\ Coercible(x.v[i][2])

\* the operations whose whole body is one try/except
TryOps ==
    {"set_if_not_exists", "dictionary_get_fields", "dictionary_fetch", "dictionary_increment",
     "dictionary_remove_fields", "dictionary_set_fields", "list_concatenate_back",
     "list_concatenate_front", "list_fetch", "list_length", "list_pop_back", "list_pop_front",
     "list_push_back", "list_push_front", "list_remove_value", "set_add_elements", "set_fetch",
     "set_remove_elements"}
WrappedOps == {"set", "get", "delete", "increment"}
FoundOps == {"dictionary_get_fields", "dictionary_fetch", "list_fetch", "list_length",
             "list_pop_back", "list_pop_front", "set_fetch"}
DiscriminatorOps == FoundOps \cup {"set_if_not_exists"}
KeyOps == {"set", "set_if_not_exists", "get", "delete", "increment"}
ValueOps == {"set", "set_if_not_exists", "list_push_back", "list_push_front", "list_remove_value"}
ScalarTtlOps == {"set", "set_if_not_exists", "increment"}
CollectionTtlOps == {"dictionary_increment", "dictionary_set_fields", "list_concatenate_back",
                     "list_concatenate_front", "list_push_back", "list_push_front",
                     "set_add_elements"}
CollectionOps == TryOps \ {"set_if_not_exists"}

\* the response classes' variants
OutcomeVariants(op) ==
    IF op = "set_if_not_exists" THEN {"Stored", "NotStored", "Error"}
    ELSE IF op \in FoundOps \cup {"get"} THEN {"Hit", "Miss", "Error"}
    ELSE {"Success", "Error"}

ResponseFamily(op) ==
    CASE op = "set_if_not_exists" -> "CacheSetIfNotExists"
      [] op = "dictionary_get_fields" -> "CacheDictionaryGetFields"
      [] op = "dictionary_fetch" -> "CacheDictionaryFetch"
      [] op = "dictionary_increment" -> "CacheDictionaryIncrement"
      [] op = "dictionary_remove_fields" -> "CacheDictionaryRemoveFields"
      [] op = "dictionary_set_fields" -> "CacheDictionarySetFields"
      [] op = "list_concatenate_back" -> "CacheListConcatenateBack"
      [] op = "list_concatenate_front" -> "CacheListConcatenateFront"
      [] op = "list_fetch" -> "CacheListFetch"
      [] op = "list_length" -> "CacheListLength"
      [] op = "list_pop_back" -> "CacheListPopBack"
      [] op = "list_pop_front" -> "CacheListPopFront"
      [] op = "list_push_back" -> "CacheListPushBack"
      [] op = "list_push_front" -> "CacheListPushFront"
      [] op = "list_remove_value" -> "CacheListRemoveValue"
      [] op = "set_add_elements" -> "CacheSetAddElements"
      [] op = "set_fetch" -> "CacheSetFetch"
      [] op = "set_remove_elements" -> "CacheSetRemoveElements"
      [] OTHER -> "other"

(***************************************************************************)
(* C1                                                                      *)
(***************************************************************************)
\* C1: every try/except-wrapped operation returns exactly one variant of its
\* own response class, whatever the inputs and the RPC outcome; no exception
\* leaves the call, and the variant is Error exactly when an error object is
\* attached.
C1_Totality ==
    last.res.op \in TryOps =>
        /\ last.res.raised = NoExc
        /\ last.res.variant \in OutcomeVariants(last.res.op)
        /\ last.res.family = ResponseFamily(last.res.op)
        /\ (last.res.variant = "Error") <=> (last.res.err # NoErr)

\* C1 witness: exceptions that are not SDK exceptions (raised while logging,
\* by the RPC, by byte coercion) have ended as the Error variant.
C1_Witness ==
    /\ last.res.op \in TryOps
    /\ last.res.variant = "Error"
    /\ last.res.err.cause \in {"RuntimeError", "RpcError", "UnicodeEncodeError", "AttributeError"}
    /\ last.res.raised = NoExc

(***************************************************************************)
(* C2                                                                      *)
(***************************************************************************)
InvalidValueCall ==
    /\ last.res.op \in {"set", "set_if_not_exists"}
    /\ last.args.value.t \notin {"str", "bytes"}

\* what set / set_if_not_exists check before they coerce the value
ChecksBeforeValuePass ==
    /\ ValidName(last.args.cache_name)
    /\ last.args.ttl.t = "NoneType" \/ PositiveTtl(last.args.ttl)
    /\ Coercible(last.args.key)

\* C2: set and set_if_not_exists given a value that is neither str nor bytes
\* return Error, raise nothing and issue no RPC; when the checks made before
\* the value is coerced (cache name, TTL, key) pass, the error code is
\* INVALID_ARGUMENT_ERROR and the message is 'Unsupported type for value: '
\* followed by the value's runtime type.
C2_InvalidValueIsInvalidArgument ==
    InvalidValueCall =>
        /\ last.res.variant = "Error"
        /\ last.res.raised = NoExc
        /\ RpcCount(last.res) = 0
        /\ ChecksBeforeValuePass =>
              /\ last.res.err.code = "INVALID_ARGUMENT_ERROR"
              /\ last.res.err.msg = "Unsupported type for value: " \o TypeRepr(last.args.value)
              /\ last.args.value.t = "int" =>
                    last.res.err.msg = "Unsupported type for value: <class 'int'>"

\* C2 witness: set_if_not_exists("c", key, 1) has returned the error of the test.
C2_Witness ==
    /\ last.res.op = "set_if_not_exists"
    /\ last.args.value.t = "int"
    /\ ChecksBeforeValuePass
    /\ last.res.variant = "Error"
    /\ last.res.err.msg = "Unsupported type for value: <class 'int'>"

(***************************************************************************)
(* C3                                                                      *)
(***************************************************************************)
NonPositiveTtlCall ==
    /\ last.res.op \in ScalarTtlOps
    /\ NonPositiveTtl(last.args.ttl)

\* what is evaluated before the TTL is validated
ChecksBeforeTtlPass ==
    /\ ValidName(last.args.cache_name)
    /\ last.res.op = "set_if_not_exists" => last.args.key.t # "Unprintable"

\* C3: set, set_if_not_exists and increment given a zero or negative TTL
\* return Error, raise nothing and send no request; when the cache name is
\* valid the error is INVALID_ARGUMENT_ERROR 'TTL must be a positive amount
\* of time.'.
C3_NonPositiveTtlRejected ==
    NonPositiveTtlCall =>
        /\ last.res.variant = "Error"
        /\ last.res.raised = NoExc
        /\ RpcCount(last.res) = 0
        /\ last.res.err.code \in {"INVALID_ARGUMENT_ERROR", "UNKNOWN_ERROR"}
        /\ ChecksBeforeTtlPass =>
              /\ last.res.err.code = "INVALID_ARGUMENT_ERROR"
              /\ last.res.err.msg = "TTL must be a positive amount of time."

\* C3 witness: set_if_not_exists with a TTL of zero has been rejected.
C3_Witness ==
    /\ last.res.op = "set_if_not_exists"
    /\ last.args.ttl = PyTimedelta(0)
    /\ ChecksBeforeTtlPass
    /\ last.res.err.msg = "TTL must be a positive amount of time."
    /\ RpcCount(last.res) = 0

(***************************************************************************)
(* C4                                                                      *)
(***************************************************************************)
ScalarTtlInvalid(ttl) == ttl.t # "NoneType" /\ ~PositiveTtl(ttl)
CollectionTtlInvalid(ttl) ==
    \/ ttl.t # "CollectionTtl"
    \/ ttl.t = "CollectionTtl" /\ ScalarTtlInvalid(ttl.v.ttl)

\* some argument of the call fails validation or byte coercion
InvalidArguments ==
    LET op == last.res.op
        a == last.args
    IN \/ ~ValidName(a.cache_name)
       \/ op \in CollectionOps /\ ~(ValidName(a.name) /\ Coercible(a.name))
       \/ op \in KeyOps /\ ~Coercible(a.key)
       \/ op \in ValueOps /\ ~Coercible(a.value)
       \/ op = "dictionary_increment" /\ ~Coercible(a.field)
       \/ op \in {"dictionary_get_fields", "dictionary_remove_fields"} /\ ~IterableCoercible(a.fields)
       \/ op \in {"list_concatenate_back", "list_concatenate_front"} /\ ~IterableCoercible(a.values)
       \/ op \in {"set_add_elements", "set_remove_elements"} /\ ~IterableCoercible(a.elements)
       \/ op = "dictionary_set_fields" /\ ~MappingCoercible(a.items)
       \/ op \in ScalarTtlOps /\ ScalarTtlInvalid(a.ttl)
       \/ op \in CollectionTtlOps /\ CollectionTtlInvalid(a.ttl)

\* C4: in every data operation, when the cache name or the collection name is
\* not a non-empty string, or a TTL is invalid, or a key / value / field /
\* element cannot be coerced to bytes, the RPC stub is not invoked.
C4_ValidationPrecedesNetwork ==
    (last.res.op # "none" /\ InvalidArguments) => RpcCount(last.res) = 0

(***************************************************************************)
(* C8                                                                      *)
(***************************************************************************)
RecognisedTags(op) ==
    IF op = "set_if_not_exists" THEN {"stored", "not_stored"} ELSE {"found", "missing"}

\* the RPC returned a response whose discriminator is not a recognised tag
UnrecognisedDiscriminator ==
    /\ last.res.op \in DiscriminatorOps
    /\ RpcCount(last.res) = 1
    /\ last.reply.kind = "response"
    /\ WhichOneof(last.reply) \notin RecognisedTags(last.res.op)

\* C8: each of the eight operations that inspect the response discriminator
\* turns an unrecognised (or unset) discriminator into its Error variant,
\* built from an UnknownException, and never into Hit, Miss, Stored or
\* NotStored.
C8_UnknownDiscriminatorIsError ==
    UnrecognisedDiscriminator =>
        /\ last.res.variant = "Error"
        /\ last.res.err.cause = "UnknownException"
        /\ last.res.err.cls = "UnknownException"
        /\ last.res.raised = NoExc

\* C8 witness: list_fetch has received a response with no discriminator set.
C8_Witness ==
    /\ UnrecognisedDiscriminator
    /\ last.res.op = "list_fetch"
    /\ last.res.variant = "Error"

(***************************************************************************)
(* C9, C10                                                                 *)
(***************************************************************************)
\* dictionary_get_fields got a 'found' response
FoundGetFields ==
    /\ last.res.op = "dictionary_get_fields"
    /\ RpcCount(last.res) = 1
    /\ last.reply.kind = "response"
    /\ WhichOneof(last.reply) = "found"

RequestedFields == IterElements(last.args.fields)
MinOf(a, b) == IF a <= b THEN a ELSE b

\* C9: a per-field result code that is neither Hit nor Miss is never
\* reported as a per-field Hit.
C9_UnknownFieldResultNeverHit ==
    (FoundGetFields /\ last.res.variant = "Hit") =>
        \A i \in DOMAIN last.res.value :
            last.reply.items[i].result \notin {Hit, Miss} => last.res.value[i].variant # "Hit"

HeaderCount(metadata, name) == Cardinality({i \in DOMAIN metadata : metadata[i][1] = name})
HeaderNames(headers) == {headers[i].name : i \in DOMAIN headers}
OnceNames(icpt) == HeaderNames(interceptors[icpt]._headers_to_add_once)
EveryTimeNames(icpt) == HeaderNames(interceptors[icpt].headers_to_add_every_time)
CallsThrough(icpt) == {c \in DOMAIN calls : calls[c].icpt = icpt}
FirstThrough(icpt) == CHOOSE c \in CallsThrough(icpt) : \A d \in CallsThrough(icpt) : c <= d
NoCallInProgress == \A t \in Threads : ~InCall(t)

\* every call so far reached the continuation and none overlapped another
SequentialHistory ==
    /\ NoCallInProgress
    /\ \A c \in DOMAIN calls : calls[c].continued /\ ~calls[c].overlapped

\* two or more calls entered one interceptor before any once-only header had
\* been sent, and no call went through another interceptor
ConcurrentFirstCalls(icpt) ==
    /\ NoCallInProgress
    /\ OnceNames(icpt) # {}
    /\ \A c \in DOMAIN calls : calls[c].icpt = icpt /\ calls[c].continued
    /\ Cardinality({c \in DOMAIN calls : ~calls[c].flag_at_entry}) >= 2

\* C5: when two or more threads concurrently issue the first calls through
\* one interceptor, each once-only header is attached to exactly one of
\* those calls, and to none of them twice.
C5_ConcurrentFirstCallsSendOnce ==
    \A icpt \in DOMAIN interceptors :
        ConcurrentFirstCalls(icpt) =>
            \A h \in OnceNames(icpt) :
                /\ Cardinality({c \in DOMAIN calls : HeaderCount(calls[c].metadata, h) > 0}) = 1
                /\ \A c \in DOMAIN calls : HeaderCount(calls[c].metadata, h) <= 1

\* C6: in a sequence of calls that do not overlap, for an interceptor with a
\* once-only header: its first call carries every once-only header exactly
\* once, its later calls carry none, and each of its calls carries every
\* every-time header exactly once.
C6_SequentialCallsHeaders ==
    SequentialHistory =>
        \A icpt \in DOMAIN interceptors :
            OnceNames(icpt) # {} =>
                \A c \in CallsThrough(icpt) :
                    /\ \A h \in OnceNames(icpt) :
                          HeaderCount(calls[c].metadata, h) =
                              (IF c = FirstThrough(icpt) THEN 1 ELSE 0)
                    /\ \A h \in EveryTimeNames(icpt) : HeaderCount(calls[c].metadata, h) = 1

\* C7: the once-only headers are sent once per interceptor instance: the
\* first call through each instance carries that instance's once-only
\* headers, whatever other instances have sent before.
C7_OncePerInterceptorInstance ==
    SequentialHistory =>
        \A icpt \in DOMAIN interceptors :
            CallsThrough(icpt) # {} =>
                \A h \in OnceNames(icpt) :
                    HeaderCount(calls[FirstThrough(icpt)].metadata, h) >= 1

(***************************************************************************)
(* C11                                                                     *)
(***************************************************************************)
\* C11: in the result of dictionary_get_fields a per-field Miss carries the
\* requested field it belongs to and no value, and a per-field Hit carries
\* both the field and its value.
C11_MissCarriesItsField ==
    (FoundGetFields /\ last.res.variant = "Hit") =>
        \A i \in DOMAIN last.res.value :
            LET r == last.res.value[i]
            IN /\ r.has_field
               /\ r.field_bytes = _as_bytes(RequestedFields[i], "").val
               /\ r.has_value <=> (r.variant = "Hit")

(***************************************************************************)
(* The cache service the scalar operations talk to.  Its code is not part  *)
(* of the client: it is modelled from the behaviour the scalar tests rely  *)
(* on (an item lives from the write until its TTL has elapsed).            *)
(***************************************************************************)
MaxHistory == 3     \* calls made against the service in one run
MaxSleeps == 1      \* times the caller sleeps in one run
SleepSeconds == 4   \* time.sleep(4)

\* bytes.decode("utf-8") of well-formed input, one code point at a time
RECURSIVE Utf8Decode(_)
Utf8Decode(b) ==
    IF b = <<>> THEN <<>>
    ELSE IF b[1] < 128 THEN <<b[1]>> \o Utf8Decode(SubSeq(b, 2, Len(b)))
    ELSE IF b[1] < 224
    THEN <<(b[1] - 192) * 64 + (b[2] - 128)>> \o Utf8Decode(SubSeq(b, 3, Len(b)))
    ELSE IF b[1] < 240
    THEN <<(b[1] - 224) * 4096 + (b[2] - 128) * 64 + (b[3] - 128)>>
         \o Utf8Decode(SubSeq(b, 4, Len(b)))
    ELSE <<(b[1] - 240) * 262144 + (b[2] - 128) * 4096 + (b[3] - 128) * 64 + (b[4] - 128)>>
         \o Utf8Decode(SubSeq(b, 5, Len(b)))

\* CacheGet.Hit.value_bytes and CacheGet.Hit.value_string
value_bytes(hit) == hit.v
value_string(hit) == Utf8Decode(hit.v)

\* the items the service holds: at most one per key
Live(st, t, k) == \E it \in st : it.key = k /\ t < it.expires_at
ItemOf(st, k) == CHOOSE it \in st : it.key = k
Without(st, k) == {it \in st : it.key # k}
Put(st, k, v, expires_at) ==
    Without(st, k) \cup {[key |-> k, value |-> v, expires_at |-> expires_at]}
Purge(st, t) == {it \in st : t < it.expires_at}

IsCounter(v) == Len(v) = 1 /\ v[1] >= 48 /\ v[1] < 57

\* the service executes one request at time t: the store it leaves and its reply
Serve(st, t, rpc) ==
    LET k == rpc.req.cache_key
        ok == Reply("response", "", "None", Ok, <<>>)
    IN  CASE rpc.what = "Set" ->
                [store |-> Put(st, k, rpc.req.cache_body, t + rpc.req.ttl_milliseconds),
                 reply |-> ok]
          [] rpc.what = "SetIfNotExists" ->
                IF Live(st, t, k)
                THEN [store |-> st, reply |-> Reply("response", "", "not_stored", Ok, <<>>)]
                ELSE [store |-> Put(st, k, rpc.req.cache_body, t + rpc.req.ttl_milliseconds),
                      reply |-> Reply("response", "", "stored", Ok, <<>>)]
          [] rpc.what = "Get" ->
                IF Live(st, t, k)
                THEN [store |-> st,
                      reply |-> [Reply("response", "", "None", Hit, <<>>)
                                    EXCEPT !.payload = PyBytes(ItemOf(st, k).value)]]
                ELSE [store |-> st, reply |-> Reply("response", "", "None", Miss, <<>>)]
          [] rpc.what = "Delete" -> [store |-> Without(st, k), reply |-> ok]
          [] rpc.what = "Increment" ->
                LET old == IF Live(st, t, k) THEN ItemOf(st, k).value ELSE <<48>>
                IN IF IsCounter(old)
                   THEN [store |-> Put(st, k, <<old[1] + rpc.req.amount>>,
                                       t + rpc.req.ttl_milliseconds),
                         reply |-> [ok EXCEPT !.payload = PyInt(old[1] - 48 + rpc.req.amount)]]
                   ELSE [store |-> st,
                         reply |-> Reply("rpc_error", "FAILED_PRECONDITION", "None", Invalid, <<>>)]
          [] OTHER -> [store |-> st, reply |-> ok]

\* what the test suite passes to the scalar operations
ServedCache == PyStr(<<99>>)
ServedKeys == {PyStr(<<107>>), PyBytes(<<103>>)}
\* uuid_str() / uuid_bytes(): the n-th call of a run writes a value no earlier
\* call wrote, a text on odd n and bytes on even n
FreshValue(n) == IF n % 2 = 1 THEN PyStr(<<232 + n>>) ELSE PyBytes(<<n>>)
ServedTtls == {PyNone, PyTimedelta(2000000)}
NoReplyYet == Reply("response", "", "None", Invalid, <<>>)

\* one call: the request the operation builds is executed by the service and
\* the operation returns what it makes of the service's reply
Exchange(name, key, value, ttl) ==
    LET Op(reply) ==
            CASE name = "set" -> set(client, ServedCache, key, value, ttl, reply)
              [] name = "set_if_not_exists" ->
                    set_if_not_exists(client, ServedCache, key, value, ttl, reply)
              [] name = "get" -> get(client, ServedCache, key, reply)
              [] name = "delete" -> delete(client, ServedCache, key, reply)
              [] name = "increment" ->
                    increment(client, ServedCache, key, PyInt(1), ttl, reply)
    IN
    \E rpcs \in {RpcEvents(Op(NoReplyYet))} :
    \E out \in {IF rpcs = <<>> THEN [store |-> store, reply |-> NoReplyYet]
                 ELSE Serve(store, now, rpcs[1])} :
    \E res \in {Op(out.reply)} :
        /\ last' = [args |-> [cache_name |-> ServedCache, key |-> key, value |-> value,
                              ttl |-> ttl],
                    reply |-> out.reply, res |-> res]
        /\ store' = out.store
        /\ hist' = Append(hist, [op |-> res.op, key |-> key, value |-> value, ttl |-> ttl,
                                 at |-> now, variant |-> res.variant, result |-> res.value])
        /\ UNCHANGED <<client, now, hdrVars>>

Serve_set ==
    /\ Len(hist) < MaxHistory
    /\ \E k \in ServedKeys, ttl \in ServedTtls :
        Exchange("set", k, FreshValue(Len(hist) + 1), ttl)

Serve_set_if_not_exists ==
    /\ Len(hist) < MaxHistory
    /\ \E k \in ServedKeys, ttl \in ServedTtls :
        Exchange("set_if_not_exists", k, FreshValue(Len(hist) + 1), ttl)

Serve_get ==
    /\ Len(hist) < MaxHistory
    /\ \E k \in ServedKeys : Exchange("get", k, PyNone, PyNone)

Serve_delete ==
    /\ Len(hist) < MaxHistory
    /\ \E k \in ServedKeys : Exchange("delete", k, PyNone, PyNone)

Serve_increment ==
    /\ Len(hist) < MaxHistory
    /\ \E k \in ServedKeys, ttl \in ServedTtls : Exchange("increment", k, PyNone, ttl)

\* time.sleep(4): the service's clock advances and expired items are gone
Sleep ==
    /\ now < MaxSleeps * SleepSeconds * 1000
    /\ now' = now + SleepSeconds * 1000
    /\ store' = Purge(store, now')
    /\ UNCHANGED <<client, last, hist, hdrVars>>

ServedInit ==
    /\ client = [_default_ttl |-> PyTimedelta(60000000), _default_deadline_seconds |-> 5]
    /\ last = Idle
    /\ store = {}
    /\ now = 0
    /\ hist = <<>>
    /\ are_only_once_headers_sent = FALSE
    /\ interceptors = <<>>
    /\ threads = <<>>
    /\ calls = <<>>

ServedNext ==
    \/ Serve_set
    \/ Serve_set_if_not_exists
    \/ Serve_get
    \/ Serve_delete
    \/ Serve_increment
    \/ Sleep

SpecServed == ServedInit /\ [][ServedNext]_vars

(***************************************************************************)
(* Vocabulary of the properties about calls against the service            *)
(***************************************************************************)
KeyBytes(k) == _as_bytes(k, "").val
\* the byte form a value must have on the wire, written out independently
WireBytes(v) == IF v.t = "str" THEN Utf8Encode(v.v) ELSE v.v
\* the TTL, in milliseconds, the call hist[i] asked for
AskedTtlMs(i) ==
    IF hist[i].ttl.t = "NoneType" THEN client._default_ttl.v \div 1000
    ELSE hist[i].ttl.v \div 1000
OnKey(i, k) == KeyBytes(hist[i].key) = KeyBytes(k)
IsGet(i) == hist[i].op = "get"
\* hist[i] put a value under its key
Wrote(i) ==
    \/ hist[i].op \in {"set", "increment"} /\ hist[i].variant = "Success"
    \/ hist[i].op = "set_if_not_exists" /\ hist[i].variant = "Stored"
\* hist[i] changed, or may have changed, what is stored under k
Touched(i, k) == OnKey(i, k) /\ (Wrote(i) \/ hist[i].op = "delete")
\* nothing changed what is stored under k strictly between hist[i] and hist[j]
Untouched(k, i, j) == \A m \in (i + 1)..(j - 1) : ~Touched(m, k)
\* hist[j] is a Hit that returns the value hist[i] wrote
HitWith(j, i) ==
    /\ hist[j].variant = "Hit"
    /\ value_bytes(hist[j].result) = WireBytes(hist[i].value)
    /\ hist[i].value.t = "str" => value_string(hist[j].result) = hist[i].value.v

(***************************************************************************)
(* C12                                                                     *)
(***************************************************************************)
\* C12: set_if_not_exists returns Stored exactly when the response's
\* discriminator is 'stored' and NotStored exactly when it is 'not_stored';
\* so against a service that stores only when the key is absent, a
\* set_if_not_exists on a key nothing was written to is Stored, and while the
\* stored item lives every later set_if_not_exists on the key is NotStored
\* and every get of the key, between and after, is a Hit with the first value.
C12_StoredOnlyWhenAbsent ==
    /\ (last.res.op = "set_if_not_exists" /\ RpcCount(last.res) = 1) =>
          /\ (last.res.variant = "Stored") <=> (WhichOneof(last.reply) = "stored")
          /\ (last.res.variant = "NotStored") <=> (WhichOneof(last.reply) = "not_stored")
    /\ \A i \in DOMAIN hist :
          hist[i].op = "set_if_not_exists" =>
              /\ (\A m \in 1..(i - 1) : ~Touched(m, hist[i].key)) => hist[i].variant = "Stored"
              /\ hist[i].variant = "Stored" =>
                    \A j \in DOMAIN hist :
                        (/\ j > i
                         /\ OnKey(j, hist[i].key)
                         /\ Untouched(hist[i].key, i, j)
                         /\ hist[j].at < hist[i].at + AskedTtlMs(i)) =>
                            /\ hist[j].op = "set_if_not_exists" => hist[j].variant = "NotStored"
                            /\ IsGet(j) => HitWith(j, i)

\* C12 witness: set_if_not_exists(k, v1) was Stored, set_if_not_exists(k, v2)
\* with another value was NotStored, and the get after both returned v1.
C12_Witness ==
    /\ Len(hist) = 3
    /\ hist[1].op = "set_if_not_exists" /\ hist[1].variant = "Stored"
    /\ hist[2].op = "set_if_not_exists" /\ hist[2].variant = "NotStored"
    /\ hist[2].key = hist[1].key /\ hist[2].value # hist[1].value
    /\ IsGet(3) /\ hist[3].key = hist[1].key
    /\ HitWith(3, 1)
    /\ hist[1].value.t = "str"

(***************************************************************************)
(* C13                                                                     *)
(***************************************************************************)
\* C13: for all valid keys and values (text or bytes), set returns Success,
\* and a get of the same key that follows it immediately, with no write and
\* no expiry in between, returns Hit whose bytes are the byte form of the
\* value and whose text is the value when the value is text.
C13_SetThenGet ==
    \A i \in DOMAIN hist :
        hist[i].op = "set" =>
            /\ hist[i].variant = "Success"
            /\ (/\ i + 1 \in DOMAIN hist
                /\ IsGet(i + 1)
                /\ OnKey(i + 1, hist[i].key)
                /\ hist[i + 1].at = hist[i].at) => HitWith(i + 1, i)

\* C13 witness: a text value set under a bytes key was read back, and a bytes
\* value set under a text key was read back.
C13_Witness ==
    /\ Len(hist) >= 2
    /\ hist[1].op = "set" /\ hist[1].key.t = "bytes" /\ hist[1].value.t = "str"
    /\ IsGet(2) /\ hist[2].key = hist[1].key /\ hist[2].at = hist[1].at
    /\ HitWith(2, 1)
    /\ value_string(hist[2].result) = hist[1].value.v
    /\ Len(value_bytes(hist[2].result)) = 2

(***************************************************************************)
(* C14                                                                     *)
(***************************************************************************)
\* C14: get returns Miss exactly when the key holds no live item at the time
\* of the call (checked until the caller next sleeps): for a key
\* nothing was written to, and for a key that was set and then deleted;
\* delete returns Success whether or not the key exists; and after a delete
\* the next get of the key, with no write in between, returns Miss.
C14_MissWhenNotStored ==
    /\ (last.res.op = "get" /\ hist[Len(hist)].at = now) =>
          (last.res.variant = "Miss") <=> ~Live(store, now, KeyBytes(last.args.key))
    /\ \A j \in DOMAIN hist :
          /\ hist[j].op = "delete" => hist[j].variant = "Success"
          /\ (IsGet(j) /\ \A m \in 1..(j - 1) : ~(OnKey(m, hist[j].key) /\ Wrote(m))) =>
                hist[j].variant = "Miss"
          /\ IsGet(j) =>
                \A i \in 1..(j - 1) :
                    (/\ hist[i].op = "delete"
                     /\ OnKey(i, hist[j].key)
                     /\ \A m \in (i + 1)..(j - 1) : ~(OnKey(m, hist[j].key) /\ Wrote(m))) =>
                        hist[j].variant = "Miss"

\* C14 witness: a key was set, deleted (Success) and then read as Miss.
C14_Witness ==
    /\ Len(hist) = 3
    /\ hist[1].op = "set" /\ hist[1].variant = "Success"
    /\ hist[2].op = "delete" /\ hist[2].key = hist[1].key /\ hist[2].variant = "Success"
    /\ IsGet(3) /\ hist[3].key = hist[1].key /\ hist[3].variant = "Miss"
    /\ hist[3].at = hist[1].at

(***************************************************************************)
(* C15                                                                     *)
(***************************************************************************)
\* C15: a key written by set, set_if_not_exists or increment with a TTL
\* override of 2 seconds is Hit on a get issued at once and Miss on a get
\* issued 4 seconds or more later, while a key written without an override
\* (the client's default TTL, longer than 4 seconds) is still Hit 4 seconds
\* later; nothing else touches the key in between.
C15_Expiry ==
    \A i \in DOMAIN hist : \A j \in DOMAIN hist :
        (/\ i < j
         /\ Wrote(i)
         /\ IsGet(j)
         /\ OnKey(j, hist[i].key)
         /\ Untouched(hist[i].key, i, j)) =>
            IF hist[i].ttl = PyTimedelta(2000000)
            THEN /\ hist[j].at = hist[i].at => hist[j].variant = "Hit"
                 /\ hist[j].at >= hist[i].at + SleepSeconds * 1000 => hist[j].variant = "Miss"
            ELSE hist[j].at <= hist[i].at + SleepSeconds * 1000 => hist[j].variant = "Hit"

\* C15 witness: two keys were written at the same time, one with the 2 second
\* override and one without; 4 seconds later the first was a Miss.
C15_Witness ==
    /\ Len(hist) = 3
    /\ hist[1].op = "set_if_not_exists" /\ Wrote(1) /\ hist[1].ttl = PyTimedelta(2000000)
    /\ Wrote(2) /\ hist[2].ttl = PyNone /\ hist[2].key # hist[1].key
    /\ hist[2].at = hist[1].at
    /\ IsGet(3) /\ hist[3].key = hist[1].key
    /\ hist[3].at = hist[1].at + SleepSeconds * 1000
    /\ hist[3].variant = "Miss"
    /\ Live(store, now, KeyBytes(hist[2].key))

(***************************************************************************)
(* Construction of the client and validation of the request timeout       *)
(***************************************************************************)
\* no client object has been constructed
Unconstructed == [constructed |-> FALSE]

\* configuration.get_transport_strategy().get_grpc_configuration().get_deadline()
get_default_client_deadline(configuration) == configuration.deadline

\* a faulty constructor that stores the default TTL without validating it
__init__without_validation(configuration, default_ttl) ==
    [raised |-> NoExc,
     grpc_manager |-> TRUE,
     self |-> [_default_ttl |-> default_ttl,
               _default_deadline_seconds |->
                   TruncDiv(get_default_client_deadline(configuration).v, 1000000)]]

\* _ScsDataClient.__init__: [raised, grpc_manager, self]; the object is
\* handed to the caller only when nothing is raised
__init__(configuration, default_ttl) ==
    LET default_deadline == get_default_client_deadline(configuration)
        seconds == TruncDiv(default_deadline.v, 1000000)
        exc == _validate_ttl(default_ttl)
    IN IF exc # NoExc
       THEN [raised |-> exc, grpc_manager |-> TRUE, self |-> Unconstructed]
       ELSE [raised |-> NoExc, grpc_manager |-> TRUE,
             self |-> [_default_ttl |-> default_ttl, _default_deadline_seconds |-> seconds]]

ConstructorTtls ==
    {PyNone, PyInt(5), PyInt(0 - 1), PyStr(<<49>>), PyTimedelta(0 - 1000000), PyTimedelta(0 - 1),
     PyTimedelta(0), PyTimedelta(1), PyTimedelta(2000000), PyTimedelta(60000000)}
Configurations == [deadline : {PyTimedelta(5000000), PyTimedelta(1500000), PyTimedelta(500000)}]
RequestTimeouts ==
    {PyNone, PyInt(0 - 1), PyInt(5), PyTimedelta(0 - 1000000), PyTimedelta(0 - 1),
     PyTimedelta(0), PyTimedelta(1), PyTimedelta(5000000)}

\* client = _ScsDataClient(configuration, credential_provider, default_ttl)
New_client ==
    /\ Len(hist) < MaxHistory
    /\ \E configuration \in Configurations, default_ttl \in ConstructorTtls :
        \E made \in {__init__(configuration, default_ttl)} :
            /\ client' = IF made.raised = NoExc THEN made.self ELSE client
            /\ last' = [args |-> [configuration |-> configuration, default_ttl |-> default_ttl],
                        reply |-> NoValue,
                        res |-> [op |-> "__init__", raised |-> made.raised,
                                 grpc_manager |-> made.grpc_manager]]
            /\ hist' = Append(hist, [op |-> "__init__", arg |-> default_ttl,
                                     configuration |-> configuration,
                                     raised |-> made.raised])
            /\ UNCHANGED <<store, now, hdrVars>>

\* a call of set_if_not_exists on the client that was constructed
Call_new_client ==
    /\ Len(hist) < MaxHistory
    /\ client # Unconstructed
    /\ \E reply \in {Reply("response", "", "stored", Invalid, <<>>),
                     Reply("rpc_error", "DEADLINE_EXCEEDED", "None", Invalid, <<>>)} :
        \E res \in {set_if_not_exists(client, PyStr(<<99>>), PyStr(<<107>>), PyStr(<<118>>),
                                       PyNone, reply)} :
            /\ last' = [args |-> [cache_name |-> PyStr(<<99>>), key |-> PyStr(<<107>>),
                                  value |-> PyStr(<<118>>), ttl |-> PyNone],
                        reply |-> reply, res |-> res]
            /\ hist' = Append(hist, [op |-> res.op, arg |-> PyNone, raised |-> res.raised,
                                     rpcs |-> RpcEvents(res)])
            /\ UNCHANGED <<client, store, now, hdrVars>>

\* _validate_request_timeout(request_timeout)
Validate_request_timeout ==
    /\ Len(hist) < MaxHistory
    /\ \E request_timeout \in RequestTimeouts :
        \E exc \in {_validate_request_timeout(request_timeout)} :
            /\ last' = [args |-> [request_timeout |-> request_timeout],
                        reply |-> NoValue,
                        res |-> [op |-> "_validate_request_timeout", raised |-> exc]]
            /\ hist' = Append(hist, [op |-> "_validate_request_timeout",
                                     arg |-> request_timeout, raised |-> exc])
            /\ UNCHANGED <<client, store, now, hdrVars>>

ConstructInit ==
    /\ client = Unconstructed
    /\ last = Idle
    /\ are_only_once_headers_sent = FALSE
    /\ interceptors = <<>>
    /\ threads = <<>>
    /\ calls = <<>>
    /\ store = {}
    /\ now = 0
    /\ hist = <<>>

ConstructNext ==
    \/ New_client
    \/ Call_new_client
    \/ Validate_request_timeout

SpecConstruct == ConstructInit /\ [][ConstructNext]_vars

(***************************************************************************)
(* C16                                                                     *)
(***************************************************************************)
\* C16: constructing a client with a zero or negative default TTL raises
\* InvalidArgumentException "TTL must be a positive amount of time.", with a
\* default TTL that is not a timedelta (None included) it raises
\* InvalidArgumentException "TTL must be a timedelta.", a positive timedelta
\* raises nothing, and the default TTL of every client that exists is a
\* positive timedelta.
C16_DefaultTtlValidated ==
    /\ \A i \in DOMAIN hist :
          hist[i].op = "__init__" =>
              /\ NonPositiveTtl(hist[i].arg) =>
                    hist[i].raised =
                        InvalidArgumentException("TTL must be a positive amount of time.")
              /\ hist[i].arg.t # "timedelta" =>
                    hist[i].raised = InvalidArgumentException("TTL must be a timedelta.")
              /\ PositiveTtl(hist[i].arg) => hist[i].raised = NoExc
    /\ client # Unconstructed => PositiveTtl(client._default_ttl)
    /\ (last.res.op = "__init__" /\ last.res.raised = NoExc) =>
          client._default_ttl = last.args.default_ttl

\* C16 witness: a client was constructed, and later constructions with None
\* and with a zero timedelta were refused, leaving the first client as it was.
C16_Witness ==
    /\ Len(hist) = 3
    /\ hist[1].op = "__init__" /\ hist[1].raised = NoExc
    /\ hist[2].op = "__init__" /\ hist[2].arg = PyNone
    /\ hist[2].raised = InvalidArgumentException("TTL must be a timedelta.")
    /\ hist[3].op = "__init__" /\ hist[3].arg = PyTimedelta(0)
    /\ hist[3].raised = InvalidArgumentException("TTL must be a positive amount of time.")
    /\ client # Unconstructed
    /\ client._default_ttl = hist[1].arg

(***************************************************************************)
(* C17                                                                     *)
(***************************************************************************)
\* C17: request-timeout validation accepts None and every positive
\* timedelta, rejects a value that is not a timedelta with
\* InvalidArgumentException "Request timeout must be a timedelta.", and
\* rejects a zero or negative timedelta with "Request timeout must be a
\* positive amount of time."; None, which TTL validation refuses, is accepted.
C17_RequestTimeoutValidated ==
    \A i \in DOMAIN hist :
        hist[i].op = "_validate_request_timeout" =>
            LET t == hist[i].arg
            IN /\ (t = PyNone \/ PositiveTtl(t)) <=> hist[i].raised = NoExc
               /\ (t # PyNone /\ t.t # "timedelta") =>
                     hist[i].raised =
                         InvalidArgumentException("Request timeout must be a timedelta.")
               /\ NonPositiveTtl(t) =>
                     hist[i].raised =
                         InvalidArgumentException(
                             "Request timeout must be a positive amount of time.")
               /\ t = PyNone => _validate_ttl(t) # NoExc

\* C17 witness: None was accepted, the integer -1 and a zero timedelta were
\* refused.
C17_Witness ==
    /\ Len(hist) = 3
    /\ \A i \in 1..3 : hist[i].op = "_validate_request_timeout"
    /\ hist[1].arg = PyNone /\ hist[1].raised = NoExc
    /\ hist[2].arg = PyInt(0 - 1)
    /\ hist[2].raised = InvalidArgumentException("Request timeout must be a timedelta.")
    /\ hist[3].arg = PyTimedelta(0)
    /\ hist[3].raised =
           InvalidArgumentException("Request timeout must be a positive amount of time.")

(***************************************************************************)
(* C18                                                                     *)
(***************************************************************************)
\* the call is a collection mutation whose collection TTL carries a zero or
\* negative duration
NonPositiveCollectionTtlCall ==
    /\ last.res.op \in CollectionTtlOps
    /\ last.args.ttl.t = "CollectionTtl"
    /\ NonPositiveTtl(last.args.ttl.v.ttl)

\* every argument of the collection mutation other than its TTL is valid
OtherCollectionArgumentsValid ==
    LET op == last.res.op
        a == last.args
    IN /\ ValidName(a.cache_name)
       /\ ValidName(a.name) /\ Coercible(a.name)
       /\ op = "dictionary_increment" => Coercible(a.field) /\ a.amount.t = "int"
       /\ op = "dictionary_set_fields" => MappingCoercible(a.items)
       /\ op \in {"list_concatenate_back", "list_concatenate_front"} => IterableCoercible(a.values)
       /\ op \in {"list_push_back", "list_push_front"} => Coercible(a.value)
       /\ op = "set_add_elements" => IterableCoercible(a.elements)

\* C18: every collection mutation that carries a TTL, called with otherwise
\* valid arguments and a collection TTL of zero or negative duration, returns
\* Error with the invalid-argument code, and sends no request whose
\* ttl_milliseconds is zero or negative.
C18_CollectionTtlValidated ==
    (NonPositiveCollectionTtlCall /\ OtherCollectionArgumentsValid) =>
        /\ last.res.variant = "Error"
        /\ last.res.err.code = "INVALID_ARGUMENT_ERROR"
        /\ \A i \in DOMAIN RpcEvents(last.res) :
              RpcEvents(last.res)[i].req.ttl_milliseconds > 0

(***************************************************************************)
(* C19                                                                     *)
(***************************************************************************)
IsTrace(e) == e.kind = "trace"
IsWarning(e) == e.kind = "warning"
TraceEvents(res) == SelectSeq(res.events, IsTrace)
WarningEvents(res) == SelectSeq(res.events, IsWarning)

\* the request type under which each operation logs its trace events
RequestType(op) ==
    CASE op = "set" -> "Set"
      [] op = "get" -> "Get"
      [] op = "delete" -> "Delete"
      [] op = "increment" -> "Increment"
      [] op = "set_if_not_exists" -> "SetIfNotExists"
      [] op = "dictionary_get_fields" -> "DictionaryGet"
      [] op = "dictionary_fetch" -> "DictionaryFetch"
      [] op = "dictionary_increment" -> "DictionaryIncrement"
      [] op = "dictionary_remove_fields" -> "DictionaryDelete"
      [] op = "dictionary_set_fields" -> "DictionarySet"
      [] op = "list_concatenate_back" -> "ListConcatenateBack"
      [] op = "list_concatenate_front" -> "ListConcatenateFront"
      [] op = "list_fetch" -> "ListFetch"
      [] op = "list_length" -> "ListLength"
      [] op = "list_pop_back" -> "ListPopBack"
      [] op = "list_pop_front" -> "ListPopFront"
      [] op = "list_push_back" -> "ListPushBack"
      [] op = "list_push_front" -> "ListPushFront"
      [] op = "list_remove_value" -> "ListRemoveValue"
      [] op = "set_add_elements" -> "SetAddElements"
      [] op = "set_fetch" -> "SetFetch"
      [] op = "set_remove_elements" -> "SetRemoveElements"
      [] OTHER -> ""

\* the RPC of the call was invoked and returned a response
RpcReturned == RpcCount(last.res) = 1 /\ last.reply.kind = "response"

\* C19 as stated: every call of a data operation, whatever its outcome, emits
\* exactly two trace events, "Issuing a <op> request" and then "Received a
\* <op> response", the second only after the RPC of the call has returned.
C19_TwoTraceEventsPerCall ==
    last.res.op # "none" =>
        LET tr == TraceEvents(last.res)
            T == RequestType(last.res.op)
        IN /\ tr = <<_log_issuing_request(T), _log_received_response(T)>>
           /\ RpcReturned

\* C19 amended: a call emits at most two trace events; the first event of a
\* call that logs any is "Issuing a <op> request"; "Received a <op>
\* response" is emitted exactly when the RPC of the call was invoked and
\* returned a response, directly after the RPC; a call that fails before or
\* in its RPC emits no "Received" event.
C19_ReceivedFollowsReturnedRpc ==
    last.res.op # "none" =>
        LET ev == last.res.events
            tr == TraceEvents(last.res)
            T == RequestType(last.res.op)
        IN /\ Len(tr) <= 2
           /\ Len(tr) >= 1 => ev[1] = _log_issuing_request(T)
           /\ Len(tr) = 0 => RpcCount(last.res) = 0 /\ last.res.variant = "Error"
           /\ Len(tr) = 2 <=> RpcReturned
           /\ Len(tr) = 2 =>
                 /\ IsRpc(ev[2])
                 /\ ev[3] = _log_received_response(T)
           /\ Len(tr) = 1 => last.res.variant \in {"Error", "NoReturn"}

\* C19 witness: a set_if_not_exists whose RPC failed logged "Issuing" and no
\* "Received".
C19_Witness ==
    /\ last.res.op = "set_if_not_exists"
    /\ RpcCount(last.res) = 1
    /\ last.reply.kind = "rpc_error"
    /\ TraceEvents(last.res) = <<_log_issuing_request("SetIfNotExists")>>
    /\ last.res.variant = "Error"

(***************************************************************************)
(* C20                                                                     *)
(***************************************************************************)
\* C20: a data operation returns its Error variant if and only if exactly
\* one warning was logged during the call, no warning is logged on another
\* outcome, and the warning of a failed operation of the data client names
\* that operation (set_add_elements included).
C20_WarningNamesFailedOperation ==
    last.res.op # "none" =>
        LET w == WarningEvents(last.res)
        IN /\ last.res.variant = "Error" <=> Len(w) = 1
           /\ last.res.variant # "Error" => Len(w) = 0
           /\ (Len(w) = 1 /\ last.res.op \in TryOps) =>
                 w[1] = _log_request_error(last.res.op)

(***************************************************************************)
(* C21                                                                     *)
(***************************************************************************)
\* every argument of the call passes validation and coercion
ArgumentsValid ==
    /\ ~InvalidArguments
    /\ last.res.op \in {"increment", "dictionary_increment"} => last.args.amount.t = "int"

ReadOps == {"get", "dictionary_fetch", "list_fetch", "set_fetch"}

Generator(fn, values, error_message) ==
    [op |-> "generator", fn |-> fn, values |-> values, error_message |-> error_message,
     pc |-> "created", pos |-> 0, coerced |-> <<>>, yielded |-> <<>>, raised |-> NoExc,
     requests |-> 0]

\* next(g) for g = _gen_iterable_as_bytes(values, error_message) and its
\* wrappers: the body runs up to the next yield, raise or return
_gen_iterable_as_bytes_next(g) ==
    LET elems == IterElements(g.values)
        b == _as_bytes(elems[g.pos + 1], DEFAULT_STRING_CONVERSION_ERROR)
    IN IF g.pc = "created" /\ ~IsIterable(g.values)
       THEN [g EXCEPT !.requests = @ + 1, !.pc = "done",
                      !.raised = InvalidArgumentException(
                                     g.error_message \o TypeRepr(g.values))]
       ELSE IF g.pos >= Len(elems)
       THEN [g EXCEPT !.requests = @ + 1, !.pc = "done"]
       ELSE IF b.exc # NoExc
       THEN [g EXCEPT !.requests = @ + 1, !.pc = "done", !.raised = b.exc,
                      !.coerced = Append(@, g.pos)]
       ELSE [g EXCEPT !.requests = @ + 1, !.pc = "suspended", !.pos = @ + 1,
                      !.coerced = Append(@, g.pos), !.yielded = Append(@, b.val)]

\* next(g) for g = _gen_dictionary_items_as_bytes(items, error_message): the
\* key of an item is coerced before its value
_gen_dictionary_items_as_bytes_next(g) ==
    LET kvs == g.values.v
        k == _as_bytes(kvs[g.pos + 1][1], DEFAULT_STRING_CONVERSION_ERROR)
        w == _as_bytes(kvs[g.pos + 1][2], DEFAULT_STRING_CONVERSION_ERROR)
    IN IF g.pc = "created" /\ ~IsMapping(g.values)
       THEN [g EXCEPT !.requests = @ + 1, !.pc = "done",
                      !.raised = InvalidArgumentException(
                                     g.error_message \o TypeRepr(g.values))]
       ELSE IF g.pos >= Len(kvs)
       THEN [g EXCEPT !.requests = @ + 1, !.pc = "done"]
       ELSE IF k.exc # NoExc
       THEN [g EXCEPT !.requests = @ + 1, !.pc = "done", !.raised = k.exc,
                      !.coerced = Append(@, g.pos)]
       ELSE IF w.exc # NoExc
       THEN [g EXCEPT !.requests = @ + 1, !.pc = "done", !.raised = w.exc,
                      !.coerced = Append(@, g.pos)]
       ELSE [g EXCEPT !.requests = @ + 1, !.pc = "suspended", !.pos = @ + 1,
                      !.coerced = Append(@, g.pos),
                      !.yielded = Append(@, <<k.val, w.val>>)]

\* code points of one, two, three and four bytes, and a lone surrogate
CodePoints == {97, 233, 8364, 128512, 55296}
CoerceInputs ==
    {PyStr(s) : s \in SeqUpTo(CodePoints, 2)}
        \cup {PyBytes(<<>>), PyBytes(<<255>>), PyBytes(<<226, 130>>), PyInt(1), PyNone}
GenElementInputs == {PyStr(<<102>>), PyBytes(<<103>>), PyInt(7), PyStr(<<55296>>)}
IterableGenerators ==
    {<<"_gen_list_as_bytes", UNSUPPORTED_LIST_VALUES_TYPE_MSG>>,
     <<"_gen_dictionary_fields_as_bytes", UNSUPPORTED_DICTIONARY_FIELDS_TYPE_MSG>>,
     <<"_gen_set_input_as_bytes", UNSUPPORTED_SET_ELEMENTS_TYPE_MSG>>}
IterableInputs ==
    {PyList(xs) : xs \in SeqUpTo(GenElementInputs, MaxFields)}
        \cup {PyInt(9), PyNone, PyStr(<<102, 103>>), PyBytes(<<1>>)}
ItemInputs ==
    {PyDict(kvs) : kvs \in {s \in SeqUpTo(GenElementInputs \X {PyStr(<<118>>), PyNone},
                                          MaxFields) :
                                \A i, j \in DOMAIN s : s[i][1] = s[j][1] => i = j}}
        \cup {PyList(<<>>), PyNone}

\* _as_bytes(data): the call and what it returned or raised
Coerce ==
    \E data \in CoerceInputs :
        \E b \in {_as_bytes(data, DEFAULT_STRING_CONVERSION_ERROR)} :
            /\ last' = [args |-> [data |-> data], reply |-> NoValue,
                        res |-> [op |-> "_as_bytes", raised |-> b.exc, val |-> b.val]]
            /\ UNCHANGED <<client, hist, store, now, hdrVars>>

\* g = _gen_list_as_bytes(values, msg), or one of the other wrappers
Gen_iterable ==
    \E f \in IterableGenerators, values \in IterableInputs :
        /\ last' = [args |-> [values |-> values, error_message |-> f[2]],
                    reply |-> NoValue,
                    res |-> Generator(f[1], values, f[2])]
        /\ UNCHANGED <<client, hist, store, now, hdrVars>>

\* g = _gen_dictionary_items_as_bytes(items, msg)
Gen_items ==
    \E items \in ItemInputs :
        /\ last' = [args |-> [values |-> items,
                              error_message |-> UNSUPPORTED_DICTIONARY_ITEMS_TYPE_MSG],
                    reply |-> NoValue,
                    res |-> Generator("_gen_dictionary_items_as_bytes", items,
                                      UNSUPPORTED_DICTIONARY_ITEMS_TYPE_MSG)]
        /\ UNCHANGED <<client, hist, store, now, hdrVars>>

\* next(g)
Gen_next ==
    /\ last.res.op = "generator"
    /\ last.res.pc # "done"
    /\ last' = [last EXCEPT !.res =
                    IF @.fn = "_gen_dictionary_items_as_bytes"
                    THEN _gen_dictionary_items_as_bytes_next(@)
                    ELSE _gen_iterable_as_bytes_next(@)]
    /\ UNCHANGED <<client, hist, store, now, hdrVars>>

CoerceInit ==
    /\ client = Unconstructed
    /\ last = Idle
    /\ are_only_once_headers_sent = FALSE
    /\ interceptors = <<>>
    /\ threads = <<>>
    /\ calls = <<>>
    /\ store = {}
    /\ now = 0
    /\ hist = <<>>

CoerceNext ==
    \/ Coerce
    \/ Gen_iterable
    \/ Gen_items
    \/ Gen_next

SpecCoerce == CoerceInit /\ [][CoerceNext]_vars

(***************************************************************************)
(* C22                                                                     *)
(***************************************************************************)
\* C22: for every text value v, _as_bytes(v) returns the UTF-8 encoding of v
\* and decoding it recovers v; for every bytes value b, _as_bytes(b) returns b
\* unchanged; and coercing the result again gives the same bytes.
C22_CoercionRoundTrip ==
    (last.res.op = "_as_bytes" /\ last.args.data.t \in {"str", "bytes"}) =>
        /\ last.res.raised = NoExc
        /\ last.args.data.t = "str" =>
              /\ last.res.val = Utf8Encode(last.args.data.v)
              /\ Utf8Decode(last.res.val) = last.args.data.v
        /\ last.args.data.t = "bytes" => last.res.val = last.args.data.v
        /\ _as_bytes(PyBytes(last.res.val), DEFAULT_STRING_CONVERSION_ERROR) =
              [exc |-> NoExc, val |-> last.res.val]

(***************************************************************************)
(* C23                                                                     *)
(***************************************************************************)
\* hist[i] is a call made on a constructed client
IsClientCall(i) == hist[i].op = "set_if_not_exists"
\* the construction that produced the client hist[j] was called on
MadeBy(j) ==
    CHOOSE i \in 1..(j - 1) :
        /\ hist[i].op = "__init__" /\ hist[i].raised = NoExc
        /\ \A m \in (i + 1)..(j - 1) : ~(hist[m].op = "__init__" /\ hist[m].raised = NoExc)

\* C23: for every configuration with a positive request deadline d, every
\* RPC the client issues carries a timeout t, in seconds, with 0 < t <= d,
\* and all calls of one client carry the same t.
C23_TimeoutWithinDeadline ==
    \A j \in DOMAIN hist :
        IsClientCall(j) =>
            LET d == hist[MadeBy(j)].configuration.deadline.v
            IN /\ \A n \in DOMAIN hist[j].rpcs :
                     /\ 0 < hist[j].rpcs[n].timeout
                     /\ hist[j].rpcs[n].timeout * 1000000 <= d
               /\ \A k \in DOMAIN hist :
                     (IsClientCall(k) /\ MadeBy(k) = MadeBy(j)) =>
                         \A n \in DOMAIN hist[j].rpcs, m \in DOMAIN hist[k].rpcs :
                             hist[j].rpcs[n].timeout = hist[k].rpcs[m].timeout

(***************************************************************************)
(* C24                                                                     *)
(***************************************************************************)
IsTextOrBinary(x) == x.t \in {"str", "bytes"}
\* the elements a coercion generator visits: values, or (key, value) items
GenInput(g) ==
    IF g.fn = "_gen_dictionary_items_as_bytes"
    THEN (IF IsMapping(g.values) THEN g.values.v ELSE <<>>)
    ELSE IterElements(g.values)
GenInputOk(g) ==
    IF g.fn = "_gen_dictionary_items_as_bytes" THEN IsMapping(g.values)
    ELSE IsIterable(g.values)
ElementOk(g, e) ==
    IF g.fn = "_gen_dictionary_items_as_bytes"
    THEN IsTextOrBinary(e[1]) /\ IsTextOrBinary(e[2])
    ELSE IsTextOrBinary(e)
\* zero-based indices of the elements that are neither text nor binary
InvalidAt(g) == {i \in 0..(Len(GenInput(g)) - 1) : ~ElementOk(g, GenInput(g)[i + 1])}
\* what the generator yields for element e
Coerced(g, e) ==
    IF g.fn = "_gen_dictionary_items_as_bytes"
    THEN <<_as_bytes(e[1], "").val, _as_bytes(e[2], "").val>>
    ELSE _as_bytes(e, "").val

\* C24: a coercion generator does nothing until an element is requested; a
\* non-iterable input raises on the first request; each request coerces one
\* element; for an input whose first element that is neither text nor binary
\* is at index i, the elements 0..i-1 are coerced and yielded in input order,
\* the InvalidArgumentException is raised when element i is requested, and
\* no element after i is coerced.
C24_LazyCoercion ==
    last.res.op = "generator" =>
        LET g == last.res
            bad == InvalidAt(g)
            first == CHOOSE i \in bad : \A j \in bad : i <= j
        IN /\ g.requests = 0 => (g.coerced = <<>> /\ g.yielded = <<>> /\ g.raised = NoExc)
           /\ ~GenInputOk(g) =>
                 (g.requests >= 1 <=>
                     g.raised = InvalidArgumentException(g.error_message \o TypeRepr(g.values)))
           /\ Len(g.coerced) <= g.requests
           /\ \A k \in DOMAIN g.coerced : g.coerced[k] = k - 1
           /\ \A k \in DOMAIN g.yielded : g.yielded[k] = Coerced(g, GenInput(g)[k])
           /\ (GenInputOk(g) /\ bad # {}) =>
                 /\ \A k \in DOMAIN g.coerced : g.coerced[k] <= first
                 /\ g.requests <= first => (g.raised = NoExc /\ Len(g.yielded) = g.requests)
                 /\ g.requests > first =>
                       /\ g.raised.cls = "InvalidArgumentException"
                       /\ Len(g.yielded) = first
                       /\ g.pc = "done"
           /\ (GenInputOk(g) /\ bad = {}) => g.raised = NoExc

(***************************************************************************)
(* C25                                                                     *)
(***************************************************************************)
\* the operations that coerce a collection argument, the argument and the
\* message prefix that names it
ElementOps ==
    {"list_concatenate_back", "list_concatenate_front", "dictionary_get_fields",
     "dictionary_remove_fields", "set_add_elements", "set_remove_elements"}
ElementArgument ==
    LET op == last.res.op
        a == last.args
    IN IF op \in {"list_concatenate_back", "list_concatenate_front"} THEN a.values
       ELSE IF op \in {"dictionary_get_fields", "dictionary_remove_fields"} THEN a.fields
       ELSE a.elements
ElementMessage ==
    LET op == last.res.op
    IN IF op \in {"list_concatenate_back", "list_concatenate_front"}
       THEN UNSUPPORTED_LIST_VALUES_TYPE_MSG
       ELSE IF op \in {"dictionary_get_fields", "dictionary_remove_fields"}
       THEN UNSUPPORTED_DICTIONARY_FIELDS_TYPE_MSG
       ELSE UNSUPPORTED_SET_ELEMENTS_TYPE_MSG

\* the call fails only in the coercion of an element of its collection argument
InvalidElementCall ==
    /\ last.res.op \in ElementOps
    /\ ValidName(last.args.cache_name)
    /\ ValidName(last.args.name) /\ Coercible(last.args.name)
    /\ last.res.op \in CollectionTtlOps =>
          (last.args.ttl.t = "CollectionTtl" /\ ~ScalarTtlInvalid(last.args.ttl.v.ttl))
    /\ ElementArgument.t = "list"
    /\ \E i \in DOMAIN ElementArgument.v : ~IsTextOrBinary(ElementArgument.v[i])
    /\ \A i \in DOMAIN ElementArgument.v :
          IsTextOrBinary(ElementArgument.v[i]) => Coercible(ElementArgument.v[i])

\* the call fails only in the coercion of its scalar value
InvalidScalarCall ==
    /\ last.res.op \in {"set_if_not_exists", "list_push_back", "list_push_front",
                        "list_remove_value"}
    /\ ValidName(last.args.cache_name)
    /\ last.res.op = "set_if_not_exists" =>
          (Coercible(last.args.key) /\ ~ScalarTtlInvalid(last.args.ttl))
    /\ last.res.op # "set_if_not_exists" =>
          (ValidName(last.args.name) /\ Coercible(last.args.name))
    /\ last.res.op \in CollectionTtlOps =>
          (last.args.ttl.t = "CollectionTtl" /\ ~ScalarTtlInvalid(last.args.ttl.v.ttl))
    /\ ~IsTextOrBinary(last.args.value)

\* C25: a byte-coercion failure is a validation error whose message names
\* the offending field and the runtime type of the offending object, for a
\* scalar argument and for an invalid element of a list of values, of a
\* sequence of fields or of a set of elements alike.
C25_CoercionErrorNamesField ==
    /\ InvalidScalarCall =>
          /\ last.res.variant = "Error"
          /\ last.res.err.code = "INVALID_ARGUMENT_ERROR"
          /\ last.res.err.msg = "Unsupported type for value: " \o TypeRepr(last.args.value)
    /\ InvalidElementCall =>
          LET xs == ElementArgument.v
              i == CHOOSE i \in DOMAIN xs :
                      /\ ~IsTextOrBinary(xs[i])
                      /\ \A j \in 1..(i - 1) : IsTextOrBinary(xs[j])
          IN /\ last.res.variant = "Error"
             /\ last.res.err.code = "INVALID_ARGUMENT_ERROR"
             /\ last.res.err.msg = ElementMessage \o TypeRepr(xs[i])

(***************************************************************************)
(* C26                                                                     *)
(***************************************************************************)
\* the TTL in force for the call: the per-call TTL, or the client's default
EffectiveTtl ==
    LET ttl == IF last.res.op \in CollectionTtlOps THEN last.args.ttl.v.ttl ELSE last.args.ttl
    IN IF ttl.t = "NoneType" THEN client._default_ttl ELSE ttl

\* the call is a set_if_not_exists or a collection mutation that sent a request
TtlRequestSent ==
    /\ last.res.op \in CollectionTtlOps \cup {"set_if_not_exists"}
    /\ RpcCount(last.res) = 1

\* C26: in set_if_not_exists and in every collection mutation, the
\* ttl_milliseconds of the request is the duration of the per-call TTL, or of
\* the client's default TTL when the per-call TTL is None, truncated to whole
\* milliseconds; set_add_elements computes what
\* collection_ttl_or_default_milliseconds computes.
C26_TtlSelection ==
    TtlRequestSent =>
        /\ RpcEvents(last.res)[1].req.ttl_milliseconds = TruncDiv(EffectiveTtl.v, 1000)
        /\ last.res.op = "set_add_elements" =>
              RpcEvents(last.res)[1].req.ttl_milliseconds =
                  collection_ttl_or_default_milliseconds(client, last.args.ttl).val

(***************************************************************************)
(* C27                                                                     *)
(***************************************************************************)
\* C27: whenever set_if_not_exists sends a request, its ttl_milliseconds is
\* at least 1: every TTL that passes validation is transmitted as a positive
\* number of milliseconds.
C27_SentTtlIsPositive ==
    (last.res.op = "set_if_not_exists" /\ RpcCount(last.res) = 1) =>
        RpcEvents(last.res)[1].req.ttl_milliseconds >= 1

(***************************************************************************)
(* C28                                                                     *)
(***************************************************************************)
\* once-only headers the interceptor attached to the call
AttachedOnce(c) ==
    Cardinality({i \in DOMAIN c.metadata : c.metadata[i][1] \in once_only_headers})
\* thread t appends a once-only header in this step
AppendsOnceHeader(t) ==
    /\ threads[t].pc = "add_once"
    /\ Len(threads'[t].metadata) = Len(threads[t].metadata) + 1
    /\ threads'[t].metadata[Len(threads'[t].metadata)][1] \in once_only_headers

\* C28: are_only_once_headers_sent never goes from True back to False; it
\* becomes True only in a step in which a call appends a once-only header,
\* hence before that call reaches the continuation; and once a call that
\* carried once-only headers has reached the continuation, also when it
\* failed there, the flag is True and no call that enters afterwards
\* attaches them again.
C28_FlagSetBeforeContinuation ==
    /\ [][are_only_once_headers_sent => are_only_once_headers_sent']_vars
    /\ [][(~are_only_once_headers_sent /\ are_only_once_headers_sent') =>
            \E t \in Threads : AppendsOnceHeader(t)]_vars
    /\ [](\A c \in DOMAIN calls :
            /\ (calls[c].continued /\ AttachedOnce(calls[c]) > 0) =>
                  are_only_once_headers_sent
            /\ calls[c].flag_at_entry => AttachedOnce(calls[c]) = 0
            /\ \A d \in DOMAIN calls :
                  (/\ d < c
                   /\ calls[d].continued /\ calls[d].failed
                   /\ AttachedOnce(calls[d]) > 0
                   /\ ~calls[c].overlapped) => AttachedOnce(calls[c]) = 0)

\* C28 witness: a call that carried a once-only header failed in the
\* continuation, and the next call through the same interceptor, made after
\* it, reached the continuation without the header.
C28_Witness ==
    /\ Len(calls) >= 2
    /\ calls[1].continued /\ calls[1].failed /\ AttachedOnce(calls[1]) = 1
    /\ calls[2].continued /\ ~calls[2].overlapped /\ calls[2].icpt = calls[1].icpt
    /\ calls[2].flag_at_entry
    /\ AttachedOnce(calls[2]) = 0
    /\ are_only_once_headers_sent

(***************************************************************************)
(* C29                                                                     *)
(***************************************************************************)
\* the metadata lists a call through interceptor icpt can reach the
\* continuation with, when its list started as base
MetadataAfter(icpt, base) ==
    LET every_time == append_headers(base, interceptors[icpt].headers_to_add_every_time)
    IN  {every_time, append_headers(every_time, interceptors[icpt]._headers_to_add_once)}
\* the last step recorded a call that raised during interception
RecordsRaisedCall ==
    /\ Len(calls') = Len(calls) + 1
    /\ calls'[Len(calls')].raised

C30_ValidatesBeforeAcquiring ==
    (last.res.op = "__init__" /\ last.res.raised # NoExc) => ~last.res.grpc_manager

====
